---- MODULE Spec2Model ----
(***************************************************************************)
(* Model of the dynamic portfolio optimisation repository:                 *)
(*   - the log-scaled wealth grid (distribution.py: numberToLog,           *)
(*     logToNumber),                                                       *)
(*   - the discretised Distribution and its significant support,          *)
(*   - the backward-induction solver of DynamicOptimisationStrategy        *)
(*     (getOptimalSolution / computeSolutionUtilityOnly), with the call    *)
(*     stack of the recursion made explicit,                               *)
(*   - the forward replay simulate() with a constant-exposures strategy.   *)
(*                                                                         *)
(* Wealth is counted in integer units of MONEY_BASE / LOG_BASE^(2*NEG),    *)
(* the smallest wealth the solver ever converts, so that logToNumber is    *)
(* exact on every index the solver reaches.  Utilities are exact           *)
(* rationals <<num, den>>; <<-1, 0>> stands for float -inf.                *)
(***************************************************************************)
EXTENDS Integers, Sequences, FiniteSets, TLC

VARIABLES cfg, dp, stack, pc, period, ret, writes, terms, calls, sim, heap, lookup,
          probe, front

vars ==
    <<cfg, dp, stack, pc, period, ret, writes, terms, calls, sim, heap, lookup, probe,
      front>>

solverVars == <<cfg, dp, stack, pc, period, ret, writes, terms, calls>>

\* what the solver and the simulator leave alone
restVars == <<heap, lookup, probe, front>>

-----------------------------------------------------------------------------
(* Grid constants (dynamicPortfolioOptimisation/constants.py) and bounds.   *)

TOTAL_STEPS == 4

NEGATIVE_STEPS == 2

LOG_BASE == 2

PROBABILITY_THR == 1

MaxPeriods == 2

MaxCands == 2

Moneys == 0 .. (TOTAL_STEPS - 1)

None == "None"

-----------------------------------------------------------------------------
(* Integer helpers.                                                        *)

Max(a, b) == IF a >= b THEN a ELSE b

Min(a, b) == IF a <= b THEN a ELSE b

Abs(a) == IF a < 0 THEN -a ELSE a

RECURSIVE Pow(_, _)
Pow(b, e) == IF e <= 0 THEN 1 ELSE b * Pow(b, e - 1)

RECURSIVE GCD(_, _)
GCD(a, b) == IF b = 0 THEN a ELSE GCD(b, a % b)

-----------------------------------------------------------------------------
(* Float values of the solver, as exact rationals.                         *)

NegInf == <<-1, 0>>

IsFinite(v) == v[2] # 0

Rat(n, d) ==
    LET g == GCD(Abs(n), d)
    IN  IF n = 0 THEN <<0, 1>> ELSE <<n \div g, d \div g>>

FromInt(n) == <<n, 1>>

\* a + b of floats: -inf absorbs
RAdd(a, b) ==
    IF ~IsFinite(a) \/ ~IsFinite(b) THEN NegInf
    ELSE Rat(a[1] * b[2] + b[1] * a[2], a[2] * b[2])

\* (num / den) * v for a probability num / den > 0
RScale(num, den, v) ==
    IF ~IsFinite(v) THEN NegInf ELSE Rat(num * v[1], den * v[2])

\* a > b of floats
RGt(a, b) ==
    IF ~IsFinite(a) THEN FALSE
    ELSE IF ~IsFinite(b) THEN TRUE
    ELSE a[1] * b[2] > b[1] * a[2]

-----------------------------------------------------------------------------
(* WealthGrid: distribution.py numberToLog / logToNumber.                  *)

\* wealth units of MONEY_BASE: LOG_BASE^(2 * NEGATIVE_STEPS)
MONEY_BASE == Pow(LOG_BASE, 2 * NEGATIVE_STEPS)

\* logToNumber(log) = LOG_BASE ** (log - NEGATIVE_STEPS) * MONEY_BASE, log >= -NEGATIVE_STEPS
logToNumber(log) == Pow(LOG_BASE, log + NEGATIVE_STEPS)

\* round(log_LOG_BASE(w)) for an integer w >= 1: the least j with
\* w^2 < LOG_BASE^(2j+1); then LOG_BASE^(2j-1) <= w^2 as well, and no tie
\* occurs (sqrt(LOG_BASE) is irrational).  pw = LOG_BASE^(2j).
RECURSIVE RoundLogFrom(_, _, _)
RoundLogFrom(w, j, pw) ==
    IF w * w < LOG_BASE * pw THEN j
    ELSE RoundLogFrom(w, j + 1, pw * LOG_BASE * LOG_BASE)

RoundLogUnits(w) == RoundLogFrom(w, 0, 1)

\* floor(log_LOG_BASE(w)) for an integer w >= 1: the least j with
\* w < LOG_BASE^(j+1).  pw = LOG_BASE^(j+1).
RECURSIVE FloorLogFrom(_, _, _)
FloorLogFrom(w, j, pw) ==
    IF w < pw THEN j ELSE FloorLogFrom(w, j + 1, pw * LOG_BASE)

FloorLogUnits(w) == FloorLogFrom(w, 0, LOG_BASE)

\* ceil(log_LOG_BASE(w)) for an integer w >= 1: the least j with LOG_BASE^j >= w
RECURSIVE CeilLogFrom(_, _, _)
CeilLogFrom(w, j, pw) ==
    IF pw >= w THEN j ELSE CeilLogFrom(w, j + 1, pw * LOG_BASE)

CeilLogUnits(w) == CeilLogFrom(w, 0, 1)

\* round(numberToLog(w)), w >= 1 unit:
\* numberToLog(w) = log(w / MONEY_BASE) / log(LOG_BASE) + NEGATIVE_STEPS
roundNumberToLog(w) == RoundLogUnits(w) - 2 * NEGATIVE_STEPS + NEGATIVE_STEPS

\* int(numberToLog(w)), w >= 1 unit: truncation towards zero
intNumberToLog(w) ==
    IF w >= Pow(LOG_BASE, NEGATIVE_STEPS)
    THEN FloorLogUnits(w) - 2 * NEGATIVE_STEPS + NEGATIVE_STEPS
    ELSE CeilLogUnits(w) - 2 * NEGATIVE_STEPS + NEGATIVE_STEPS

-----------------------------------------------------------------------------
(* Distribution (distribution.py) and the candidates of a period.          *)

\* Distribution.__post_init__ default: np.zeros(TOTAL_STEPS), no portfolio
NoDist == [probabilities |-> [m \in Moneys |-> 0], portfolio |-> <<>>]

\* a Distribution is held by reference: its position on the frontier; 0 is None
NoRef == 0

RECURSIVE SumMass(_, _)
SumMass(probabilities, S) ==
    IF S = {} THEN 0
    ELSE LET i == CHOOSE x \in S : TRUE
         IN  probabilities[i] + SumMass(probabilities, S \ {i})

\* the k-th smallest element of a finite set of integers, k >= 1
Nth(S, k) == CHOOSE x \in S : Cardinality({y \in S : y < x}) = k - 1

\* mutant: the threshold itself counts as significant
SignificantCellsInclusive(probabilities) ==
    {i \in DOMAIN probabilities : probabilities[i] >= PROBABILITY_THR}

\* np.where(probabilities > PROBABILITY_THR)[0]
SignificantCells(probabilities) ==
    {i \in DOMAIN probabilities : probabilities[i] > PROBABILITY_THR}

\* Distribution.getSignificantProbabilities: the cells above the threshold in
\* ascending index order, each with probability num / den, den their total mass
getSignificantProbabilities(dist) ==
    LET S   == SignificantCells(dist.probabilities)
        tot == SumMass(dist.probabilities, S)
    IN  [k \in 1 .. Cardinality(S) |->
            [idx |-> Nth(S, k), num |-> dist.probabilities[Nth(S, k)], den |-> tot]]

\* Three discretised candidates in ascending expected return (masses in
\* tenths), as find_efficient_frontier orders them: hold the wealth index,
\* an even bet one step down / one step up, a sure step up.  Mass at or
\* below PROBABILITY_THR is dust that the significant support drops.
DistHold ==
    [probabilities |-> [m \in Moneys |-> IF m = NEGATIVE_STEPS THEN 10 ELSE 0],
     portfolio |-> [i \in {"^GSPC"} |-> 50]]

DistBet ==
    [probabilities |->
        [m \in Moneys |->
            IF m = NEGATIVE_STEPS - 1 THEN 4
            ELSE IF m = NEGATIVE_STEPS THEN 1
            ELSE IF m = NEGATIVE_STEPS + 1 THEN 5 ELSE 0],
     portfolio |-> [i \in {"^GSPC"} |-> 150]]

DistUp ==
    [probabilities |->
        [m \in Moneys |->
            IF m = NEGATIVE_STEPS + 1 THEN 9
            ELSE IF m = NEGATIVE_STEPS THEN 1 ELSE 0],
     portfolio |-> [i \in {"^GSPC", "VBMFX"} |-> IF i = "^GSPC" THEN 100 ELSE 50]]

Frontier == <<DistHold, DistBet, DistUp>>

\* the Distribution object behind a reference
Deref(ref) == IF ref = NoRef THEN NoDist ELSE Frontier[ref]

\* getExpectedDistributions: references to at most MaxCands points of the
\* frontier, in frontier order (strictly ascending return)
CandidateLists ==
    {[k \in 1 .. Cardinality(S) |-> Nth(S, k)] :
        S \in {X \in SUBSET (1 .. Len(Frontier)) : Cardinality(X) <= MaxCands}}

-----------------------------------------------------------------------------
(* Inputs of DynamicOptimisationStrategy.__init__.                         *)

\* terminal utility on the grid: linear in the wealth index (runParralel.py
\* "Final utility log", times TOTAL_STEPS), a step at k (1 from index k on), a
\* peak at k (1 at index k only: a target wealth), or -inf everywhere
UtilityTables ==
    {[m \in Moneys |-> FromInt(m)]}
    \cup {[m \in Moneys |-> FromInt(IF m >= k THEN 1 ELSE 0)] : k \in 0 .. TOTAL_STEPS}
    \cup {[m \in Moneys |-> FromInt(IF m = k THEN 1 ELSE 0)] : k \in Moneys}
    \cup {[m \in Moneys |-> NegInf]}

LossAversions == {0, 1}

\* the trading days of period p, counted from the first day of the study
\* window: tradingDays[i : i + daysPerRebalance], two days to a period
periodsToSim(p) == {2 * p, 2 * p + 1}

\* dailyIncome(day) in wealth units: the same on every trading day
DailyIncomeValues == {-1, 0, 1}

\* dailyIncome over the trading days of P periods: the same every day, or paid
\* on the first day only
IncomeFunctions(P) ==
    {[d \in 0 .. (2 * P - 1) |-> c] : c \in DailyIncomeValues}
    \cup {[d \in 0 .. (2 * P - 1) |-> IF d = 0 THEN 2 ELSE 0]}

\* initialBalance in wealth units: on a grid point, and between grid points
InitialBalances == {logToNumber(1), 3 * logToNumber(0)}

Configs ==
    UNION {
        [numPeriods      : {P},
         utility         : UtilityTables,
         lossAversion    : LossAversions,
         dailyIncome     : IncomeFunctions(P),
         distributions   : CandidateLists,
         initialBalance  : InitialBalances] : P \in 0 .. MaxPeriods}

\* mutant: only the last day of the period pays
SumIncomeLastDayOnly(dailyIncome, days) ==
    IF days = {} THEN 0
    ELSE dailyIncome[CHOOSE d \in days : \A e \in days : e <= d]

\* sum(dailyIncome(day) for day in period)
RECURSIVE SumIncome(_, _)
SumIncome(dailyIncome, days) ==
    IF days = {} THEN 0
    ELSE LET d == CHOOSE x \in days : TRUE
         IN  dailyIncome[d] + SumIncome(dailyIncome, days \ {d})

\* self.incomePerPeriod
incomePerPeriod ==
    [p \in 0 .. (cfg.numPeriods - 1) |-> SumIncome(cfg.dailyIncome, periodsToSim(p))]

\* utilityFunction(x): the table on the grid; below the grid the ruin penalty
\* of runParralel.py ("... if x > 0 else -1"), above it the top cell
utilityFunction(x) ==
    IF x < 0 THEN FromInt(-1)
    ELSE IF x > TOTAL_STEPS - 1 THEN cfg.utility[TOTAL_STEPS - 1]
    ELSE cfg.utility[x]

\* dailyUtilityFunction(x, y, date): loss-aversion penalty on a fall from x to
\* y, scaled by the position of the period's first day in the study window
dailyUtilityFunction(x, y, p) ==
    FromInt(-(cfg.lossAversion * Max(x - y, 0) * Max(x - y, 0) * (p + 1)))

\* mutant: the initial wealth index is rounded, not truncated
initialMoneyRounded == roundNumberToLog(cfg.initialBalance)

\* self.initialMoney = int(numberToLog(initialBalance))
initialMoney == intNumberToLog(cfg.initialBalance)

\* len(self.distributionsPerPeriod[period]): every period gets the same list
NumCands == Len(cfg.distributions)

-----------------------------------------------------------------------------
(* The PolicyTable self.dp.                                                *)

\* dp[period][money] = None
EmptyCell ==
    [kind |-> "empty", value |-> FromInt(0), dist |-> NoRef, idx |-> -1, income |-> 0]

\* mutant: the terminal utility is taken one wealth index too high
TerminalCellShifted(money) ==
    [kind |-> "terminal", value |-> utilityFunction(money + 1), dist |-> NoRef,
     idx |-> -1, income |-> 0]

\* (self.utilityFunction(money), None, None, 0.0)
TerminalCell(money) ==
    [kind |-> "terminal", value |-> utilityFunction(money), dist |-> NoRef,
     idx |-> -1, income |-> 0]

\* (bestUtility, bestPortfolio, bestPortfolioIdx, income)
ChoiceCell(value, dist, idx, income) ==
    [kind |-> "choice", value |-> value, dist |-> dist, idx |-> idx, income |-> income]

Periods == 0 .. cfg.numPeriods

Populated(p, m) == dp[p][m].kind # "empty"

FullyPopulated(p) == \A m \in Moneys : Populated(p, m)

Untouched(p) == \A m \in Moneys : ~Populated(p, m)

-----------------------------------------------------------------------------
(* computeSolutionUtilityOnly: evaluation of one wealth index.             *)

\* money = (minMoney + maxMoney) // 2
Midpoint(minMoney, maxMoney) == (minMoney + maxMoney) \div 2

\* logToNumber(moneyAfterMove) + income, moneyAfterMove = money + idx - NEGATIVE_STEPS
WealthAfterIncome(money, idx, income) ==
    logToNumber(money + idx - NEGATIVE_STEPS) + income

\* np.log of a non-positive wealth is nan / -inf, which round() refuses
LogDefined(wealth) == wealth > 0

\* moneyAfterIncome = max(moneyAfterIncome, 0.0)
ClampLow(moneyAfterIncome) == Max(moneyAfterIncome, 0)

\* if moneyAfterIncome < 0: (tested after the clamp above)
RuinBranch(moneyAfterIncome) == moneyAfterIncome < 0

\* mutant: the upper clamp is missing
ClampHighMissing(moneyAfterIncome) == moneyAfterIncome

\* moneyAfterIncome = min(moneyAfterIncome, TOTAL_STEPS - 1)
ClampHigh(moneyAfterIncome) == Min(moneyAfterIncome, TOTAL_STEPS - 1)

\* One term of the inner loop, for support cell s of candidate idxDist at
\* wealth index money, with next the row self.dp[period + 1]: whether round()
\* accepts the log (mathOk), the unclamped index raw, the branch taken (ruin),
\* the cell of next addressed (addr) and whether that cell can be read (readOk).
Term(next, p, money, idxDist, s) ==
    LET wealth == WealthAfterIncome(money, s.idx, incomePerPeriod[p])
        raw    == IF LogDefined(wealth) THEN roundNumberToLog(wealth) ELSE 0
        ruin   == RuinBranch(ClampLow(raw))
        addr   == IF ruin THEN ClampLow(raw) ELSE ClampHigh(ClampLow(raw))
    IN  [cand |-> idxDist, idx |-> s.idx, num |-> s.num, den |-> s.den,
         mathOk |-> LogDefined(wealth), raw |-> raw, ruin |-> ruin, addr |-> addr,
         readOk |-> ruin \/ (addr \in DOMAIN next /\ next[addr].kind # "empty")]

TermOk(t) == t.mathOk /\ t.readOk

\* probability * utilityFunction(moneyAfterIncome) on the ruin branch, else
\* probability * (dp[period + 1][moneyAfterIncome][0] + dailyUtilityFunction(...))
TermValue(next, p, money, t) ==
    IF t.ruin THEN RScale(t.num, t.den, utilityFunction(t.addr))
    ELSE RScale(t.num, t.den,
                RAdd(next[t.addr].value, dailyUtilityFunction(money, t.addr, p)))

\* the terms of candidate idxDist (0-based), in support order
CandidateTerms(next, p, money, idxDist) ==
    LET sig == getSignificantProbabilities(Deref(cfg.distributions[idxDist + 1]))
    IN  [k \in 1 .. Len(sig) |-> Term(next, p, money, idxDist, sig[k])]

RECURSIVE SumTerms(_, _, _, _, _)
SumTerms(next, p, money, ts, k) ==
    IF k > Len(ts) THEN FromInt(0)
    ELSE RAdd(TermValue(next, p, money, ts[k]), SumTerms(next, p, money, ts, k + 1))

\* finalUtility of candidate idxDist at wealth index money
CandidateValue(next, p, money, idxDist) ==
    SumTerms(next, p, money, CandidateTerms(next, p, money, idxDist), 1)

\* the candidates the loop does not skip:
\* not (idxDist < lowerBoundDistIdx or idxDist > upperBoundDistIdx)
EvaluatedCands(lowerBoundDistIdx, upperBoundDistIdx) ==
    {i \in 0 .. (NumCands - 1) : ~(i < lowerBoundDistIdx \/ i > upperBoundDistIdx)}

\* mutant: an equal utility replaces the best so far
ReplacesWhenNotLower(hasBest, finalUtility, bestUtility) ==
    ~hasBest \/ ~RGt(bestUtility, finalUtility)

\* mutant: a lower utility replaces the best so far
ReplacesWhenLower(hasBest, finalUtility, bestUtility) ==
    ~hasBest \/ RGt(bestUtility, finalUtility)

\* if bestUtility is None or finalUtility > bestUtility
Replaces(hasBest, finalUtility, bestUtility) ==
    ~hasBest \/ RGt(finalUtility, bestUtility)

\* bestUtility = None; bestPortfolioIdx = 0
NoBest == [has |-> FALSE, value |-> FromInt(0), idx |-> 0]

\* the loop over enumerate(retusnDistributions), from candidate i on, with
\* best = (bestUtility, bestPortfolioIdx) so far
RECURSIVE ScanCands(_, _, _, _, _, _, _)
ScanCands(next, p, money, lo, hi, i, best) ==
    IF i > NumCands - 1 THEN best
    ELSE IF i \notin EvaluatedCands(lo, hi)
    THEN ScanCands(next, p, money, lo, hi, i + 1, best)
    ELSE LET finalUtility == CandidateValue(next, p, money, i)
         IN  IF Replaces(best.has, finalUtility, best.value)
             THEN ScanCands(next, p, money, lo, hi, i + 1,
                            [has |-> TRUE, value |-> finalUtility, idx |-> i])
             ELSE ScanCands(next, p, money, lo, hi, i + 1, best)

\* every term the loop computes for the call (period p, money, [lo, hi]), in
\* execution order: candidates ascending from i, support cells ascending
RECURSIVE TermSeq(_, _, _, _, _, _)
TermSeq(next, p, money, lo, hi, i) ==
    IF i > NumCands - 1 THEN <<>>
    ELSE (IF i \in EvaluatedCands(lo, hi)
          THEN CandidateTerms(next, p, money, i) ELSE <<>>)
         \o TermSeq(next, p, money, lo, hi, i + 1)

\* the terms reached before the call returns or raises: all of them, or those
\* up to the first one that cannot be computed
Executed(ts) ==
    LET bad == {k \in 1 .. Len(ts) : ~TermOk(ts[k])}
    IN  IF bad = {} THEN ts ELSE SubSeq(ts, 1, Nth(bad, 1))

\* self.dp[period + 1]; a period the table does not hold has no cell to read
NextRow(p) == IF p + 1 \in DOMAIN dp THEN dp[p + 1] ELSE <<>>

-----------------------------------------------------------------------------
(* The call stack of computeSolutionUtilityOnly.                           *)

Frame(p, minMoney, maxMoney, lo, hi) ==
    [period |-> p, minMoney |-> minMoney, maxMoney |-> maxMoney,
     lowerBoundDistIdx |-> lo, upperBoundDistIdx |-> hi,
     money |-> Midpoint(minMoney, maxMoney), bestPortfolioIdx |-> 0, at |-> "eval"]

Top == stack[Len(stack)]

SetTop(f) == [stack EXCEPT ![Len(stack)] = f]

\* the wealth range of the first recursive call: minMoney, maxMoney=money
LowerHalfRange(f) == <<f.minMoney, f.money>>

\* mutant: the second recursive call starts at the midpoint again
UpperHalfRangeFromMidpoint(f) == <<f.money, f.maxMoney>>

\* the wealth range of the second recursive call: minMoney=money + 1, maxMoney
UpperHalfRange(f) == <<f.money + 1, f.maxMoney>>

\* mutant: the lower half is given the candidate range below the midpoint's choice
LowerHalfBoundsBelowBest(f) == <<f.lowerBoundDistIdx, f.bestPortfolioIdx>>

\* the candidate range handed to the call on [minMoney, money)
LowerHalfBounds(f) == <<f.bestPortfolioIdx, f.upperBoundDistIdx>>

\* mutant: the upper half is given the candidate range above the midpoint's choice
UpperHalfBoundsAboveBest(f) == <<f.bestPortfolioIdx, f.upperBoundDistIdx>>

\* the candidate range handed to the call on [money + 1, maxMoney)
UpperHalfBounds(f) == <<f.lowerBoundDistIdx, f.bestPortfolioIdx>>

\* mutant: the loop starts one period too low
FirstPeriodOffByOne == cfg.numPeriods - 2

\* range(len(self.periodsToSim) - 1, -1, -1)
FirstPeriod == cfg.numPeriods - 1

NextPeriod(p) == p - 1

LoopDone(p) == p < 0

\* the period whose cells getOptimalSolution fills with the terminal utility
TerminalPeriod == cfg.numPeriods

SimIdle == [at |-> "idle"]

\* the portfolio mapping of every Distribution object of distributionsPerPeriod
\* (one list of objects per period, built by getExpectedDistributions)
InitialHeap ==
    [p \in 0 .. (cfg.numPeriods - 1) |->
        [k \in 1 .. NumCands |-> Frontier[cfg.distributions[k]].portfolio]]

\* no call of getPositionsFromBasket made yet
NoLookup ==
    [raised |-> "none", site |-> "none", called |-> FALSE, periodIdx |-> 0,
     cashValue |-> <<0, 1>>, logMoney |-> 0, portfolio |-> <<>>,
     basket |-> [stockPositions |-> <<>>, cash |-> <<0, 1>>]]

NoProbe == [fn |-> "none"]

NoFront == [at |-> "idle"]

-----------------------------------------------------------------------------
(* Actions of the solver.                                                  *)

Init ==
    /\ cfg \in Configs
    /\ dp = [p \in 0 .. cfg.numPeriods |-> [m \in Moneys |-> EmptyCell]]
    /\ stack = <<>>
    /\ pc = "start"
    /\ period = 0
    /\ ret = EmptyCell
    /\ writes = [p \in 0 .. cfg.numPeriods |-> [m \in Moneys |-> 0]]
    /\ terms = {}
    /\ calls = 0
    /\ sim = SimIdle
    /\ heap = InitialHeap
    /\ lookup = NoLookup
    /\ probe = NoProbe
    /\ front = NoFront

\* getOptimalSolution, lines 168-174: the terminal period
InitTerminal ==
    /\ pc = "start"
    /\ dp' = [dp EXCEPT ![TerminalPeriod] = [m \in Moneys |-> TerminalCell(m)]]
    /\ writes' = [writes EXCEPT ![TerminalPeriod] =
                      [m \in Moneys |-> writes[TerminalPeriod][m] + 1]]
    /\ period' = FirstPeriod
    /\ pc' = "loop"
    /\ UNCHANGED <<cfg, stack, ret, terms, calls, sim, restVars>>

\* getOptimalSolution, lines 176-187: the call for the next period
SolvePeriod ==
    /\ pc = "loop"
    /\ ~LoopDone(period)
    /\ stack' = <<Frame(period, 0, TOTAL_STEPS, 0, NumCands - 1)>>
    /\ calls' = calls + 1
    /\ terms' = {}
    /\ pc' = "solving"
    /\ UNCHANGED <<cfg, dp, period, ret, writes, sim, restVars>>

\* what the history variable terms keeps, for the period being solved, of a
\* term that got as far as its branch: the wealth index evaluated, the
\* candidate, the support cell, the unclamped index, the branch, the cell addressed
Logged(money, t) ==
    [money |-> money, cand |-> t.cand, idx |-> t.idx, raw |-> t.raw, ruin |-> t.ruin,
     addr |-> t.addr]

LoggedTerms(money, ts) ==
    {Logged(money, ts[k]) : k \in {x \in 1 .. Len(ts) : ts[x].mathOk}}

\* computeSolutionUtilityOnly, lines 114-149: evaluate the midpoint and store
\* it.  The call raises instead, storing nothing, on round() of the log of a
\* non-positive wealth, on a missing or None cell of period + 1, and at line
\* 149 (bestPortfolio unbound) when the loop evaluated no candidate.
Evaluate ==
    /\ pc = "solving"
    /\ stack # <<>>
    /\ Top.at = "eval"
    /\ LET f    == Top
           ts   == TermSeq(NextRow(f.period), f.period, f.money,
                           f.lowerBoundDistIdx, f.upperBoundDistIdx, 0)
           ok   == /\ \A k \in 1 .. Len(ts) : TermOk(ts[k])
                   /\ EvaluatedCands(f.lowerBoundDistIdx, f.upperBoundDistIdx) # {}
           best == ScanCands(NextRow(f.period), f.period, f.money,
                             f.lowerBoundDistIdx, f.upperBoundDistIdx, 0, NoBest)
       IN  /\ terms' = terms \cup LoggedTerms(f.money, Executed(ts))
           /\ IF ok
              THEN /\ dp' = [dp EXCEPT ![f.period][f.money] =
                                ChoiceCell(best.value, cfg.distributions[best.idx + 1],
                                           best.idx, incomePerPeriod[f.period])]
                   /\ writes' = [writes EXCEPT ![f.period][f.money] = @ + 1]
                   /\ stack' = SetTop([f EXCEPT !.bestPortfolioIdx = best.idx,
                                                !.at = "lower"])
                   /\ pc' = pc
              ELSE /\ pc' = "error"
                   /\ UNCHANGED <<dp, writes, stack>>
    /\ UNCHANGED <<cfg, period, ret, calls, sim, restVars>>

\* lines 150-157: the call on the lower half of the wealth range
CallLower ==
    /\ pc = "solving"
    /\ stack # <<>>
    /\ Top.at = "lower"
    /\ LET f == Top
       IN  IF f.minMoney < f.money
           THEN /\ stack' = Append(SetTop([f EXCEPT !.at = "upper"]),
                                   Frame(f.period, LowerHalfRange(f)[1], LowerHalfRange(f)[2],
                                         LowerHalfBounds(f)[1], LowerHalfBounds(f)[2]))
                /\ calls' = calls + 1
           ELSE /\ stack' = SetTop([f EXCEPT !.at = "upper"])
                /\ calls' = calls
    /\ UNCHANGED <<cfg, dp, pc, period, ret, writes, terms, sim, restVars>>

\* lines 158-165: the call on the upper half of the wealth range
CallUpper ==
    /\ pc = "solving"
    /\ stack # <<>>
    /\ Top.at = "upper"
    /\ LET f == Top
       IN  IF f.maxMoney > f.money + 1
           THEN /\ stack' = Append(SetTop([f EXCEPT !.at = "return"]),
                                   Frame(f.period, UpperHalfRange(f)[1], UpperHalfRange(f)[2],
                                         UpperHalfBounds(f)[1], UpperHalfBounds(f)[2]))
                /\ calls' = calls + 1
           ELSE /\ stack' = SetTop([f EXCEPT !.at = "return"])
                /\ calls' = calls
    /\ UNCHANGED <<cfg, dp, pc, period, ret, writes, terms, sim, restVars>>

\* computeSolutionUtilityOnly returns to its caller
Return ==
    /\ pc = "solving"
    /\ stack # <<>>
    /\ Top.at = "return"
    /\ stack' = SubSeq(stack, 1, Len(stack) - 1)
    /\ UNCHANGED <<cfg, dp, pc, period, ret, writes, terms, calls, sim, restVars>>

\* the outermost call of a period has returned: next iteration of the loop
PeriodDone ==
    /\ pc = "solving"
    /\ stack = <<>>
    /\ period' = NextPeriod(period)
    /\ pc' = "loop"
    /\ UNCHANGED <<cfg, dp, stack, ret, writes, terms, calls, sim, restVars>>

\* line 189: return self.dp[0][self.initialMoney]
Finish ==
    /\ pc = "loop"
    /\ LoopDone(period)
    /\ ret' = dp[0][initialMoney]
    /\ pc' = "done"
    /\ UNCHANGED <<cfg, dp, stack, period, writes, terms, calls, sim, restVars>>

Next ==
    \/ InitTerminal
    \/ SolvePeriod
    \/ Evaluate
    \/ CallLower
    \/ CallUpper
    \/ Return
    \/ PeriodDone
    \/ Finish

Spec == Init /\ [][Next]_vars

-----------------------------------------------------------------------------
(* Properties of the solver.                                               *)

SolvedPeriods == 0 .. (cfg.numPeriods - 1)

BruteTerminalRow == [m \in Moneys |-> TerminalCell(m)]

BruteRowOk(next, p) ==
    /\ NumCands > 0
    /\ \A m \in Moneys :
           LET ts == TermSeq(next, p, m, 0, NumCands - 1, 0)
           IN  \A k \in 1 .. Len(ts) : TermOk(ts[k])

BruteRow(next, p) ==
    [m \in Moneys |->
        LET best == ScanCands(next, p, m, 0, NumCands - 1, 0, NoBest)
        IN  ChoiceCell(best.value, cfg.distributions[best.idx + 1], best.idx,
                       incomePerPeriod[p])]

\* the exhaustive solver's rows of periods p .. numPeriods, and whether it
\* got that far without raising
RECURSIVE Brute(_)
Brute(p) ==
    IF p = cfg.numPeriods
    THEN [ok |-> TRUE, rows |-> [q \in {p} |-> BruteTerminalRow]]
    ELSE LET nx == Brute(p + 1)
         IN  IF nx.ok /\ BruteRowOk(nx.rows[p + 1], p)
             THEN [ok |-> TRUE,
                   rows |-> [q \in p .. cfg.numPeriods |->
                                IF q = p THEN BruteRow(nx.rows[p + 1], p)
                                ELSE nx.rows[q]]]
             ELSE [ok |-> FALSE, rows |-> nx.rows]

SameValueAndIndex(c1, c2) == c1.value = c2.value /\ c1.idx = c2.idx

SolverMatches(rows) ==
    \A p \in SolvedPeriods : \A m \in Moneys : SameValueAndIndex(dp[p][m], rows[p][m])

\* the exhaustive solver's choice never rises with the wealth index
NonIncreasing(rows) ==
    \A p \in SolvedPeriods : \A m1, m2 \in Moneys :
        m1 < m2 => rows[p][m1].idx >= rows[p][m2].idx

C3_NegativeIndexUsesTerminalUtility ==
    \A t \in terms : t.raw < 0 => t.ruin

\* C4: every continuation read made while evaluating a cell addresses
\* dp[p+1][m'] with 0 <= m' <= TOTAL_STEPS - 1, also when the unclamped index
\* is negative or above TOTAL_STEPS - 1; no evaluation stops on a table
\* lookup (it stops only on a non-positive wealth or an empty candidate list).
C4_ContinuationReadsInBounds ==
    /\ \A t \in terms : ~t.ruin => t.addr \in Moneys
    /\ (pc = "error" /\ NumCands > 0) =>
           LET f  == Top
               ts == TermSeq(NextRow(f.period), f.period, f.money,
                             f.lowerBoundDistIdx, f.upperBoundDistIdx, 0)
           IN  \E k \in 1 .. Len(ts) : ~ts[k].mathOk

\* the solve of one period read period p + 1 for a term below the grid (at
\* cell 0) and for a term above it (at cell TOTAL_STEPS - 1)
C4_Witness ==
    /\ \E t \in terms : t.raw < 0 /\ ~t.ruin /\ t.addr = 0
    /\ \E t \in terms : t.raw > TOTAL_STEPS - 1 /\ ~t.ruin /\ t.addr = TOTAL_STEPS - 1

\* C5: the terminal period is populated first; periods are then solved in
\* the order numPeriods-1, ..., 0; while a cell of period p is computed every
\* cell of period p + 1 is populated; between periods the table is fully
\* populated above the boundary and untouched below it.
C5_StrictlyBackward ==
    /\ pc = "start" => \A q \in Periods : Untouched(q)
    /\ pc \in {"loop", "done"} =>
           \A q \in Periods : IF q > period THEN FullyPopulated(q) ELSE Untouched(q)
    /\ pc = "solving" =>
           /\ period \in SolvedPeriods
           /\ \A k \in 1 .. Len(stack) : stack[k].period = period
           /\ \A q \in Periods :
                  /\ q > period => FullyPopulated(q)
                  /\ q < period => Untouched(q)

\* a boundary in the middle of the solve: period 1 is done, period 0 not begun
C5_Witness ==
    /\ pc = "loop"
    /\ cfg.numPeriods >= 2
    /\ period = 0
    /\ FullyPopulated(1)
    /\ Untouched(0)

\* the cells of period p covered by calls that are on the stack or still to
\* be made by a frame on the stack
PendingCells(f) ==
    (IF f.at = "eval" THEN {f.money} ELSE {})
    \cup (IF f.at \in {"eval", "lower"} THEN f.minMoney .. (f.money - 1) ELSE {})
    \cup (IF f.at \in {"eval", "lower", "upper"} THEN (f.money + 1) .. (f.maxMoney - 1)
          ELSE {})

\* C6: no (period, money) pair is written twice; a cell is populated exactly
\* when it was written once; the recursion on [0, TOTAL_STEPS) makes at most
\* one call per wealth index, is never stuck before it returns or raises, and
\* when it has returned every wealth index of the period is written once.
C6_ExactlyOnceCoverage ==
    /\ \A p \in Periods : \A m \in Moneys :
           /\ writes[p][m] <= 1
           /\ Populated(p, m) <=> writes[p][m] = 1
    /\ calls <= cfg.numPeriods * TOTAL_STEPS
    /\ pc = "solving" =>
           /\ \A m \in Moneys :
                  writes[period][m] = 0 <=>
                      \E k \in 1 .. Len(stack) : m \in PendingCells(stack[k])
           /\ stack = <<>> => \A m \in Moneys : writes[period][m] = 1
    /\ pc \in {"loop", "done"} =>
           \A p \in SolvedPeriods : p > period =>
               \A m \in Moneys : writes[p][m] = 1

\* a finished two-period solve: every cell written exactly once
C6_Witness ==
    /\ pc = "done"
    /\ cfg.numPeriods = MaxPeriods
    /\ calls = cfg.numPeriods * TOTAL_STEPS
    /\ \A p \in Periods : \A m \in Moneys : writes[p][m] = 1

\* C7: once getOptimalSolution has run its first loop, every cell of the
\* terminal period holds the terminal utility of its wealth index, no
\* distribution, no candidate index and income 0, and is never written again.
C7_TerminalInitialization ==
    pc # "start" =>
        \A m \in Moneys :
            /\ dp[cfg.numPeriods][m] =
                   [kind |-> "terminal", value |-> cfg.utility[m], dist |-> NoRef,
                    idx |-> -1, income |-> 0]
            /\ writes[cfg.numPeriods][m] = 1

\* a finished solve over a terminal utility that is not constant
C7_Witness ==
    /\ pc = "done"
    /\ cfg.numPeriods >= 1
    /\ dp[cfg.numPeriods][0].value # dp[cfg.numPeriods][TOTAL_STEPS - 1].value

\* C8: with numPeriods = 0 no call of computeSolutionUtilityOnly is made,
\* period 0 of the table equals the terminal utility at every wealth index,
\* and getOptimalSolution returns the terminal cell at the initial wealth index.
C8_TerminalBoundary ==
    cfg.numPeriods = 0 =>
        /\ calls = 0
        /\ stack = <<>>
        /\ pc # "error"
        /\ pc # "start" =>
               \A m \in Moneys :
                   /\ dp[0][m].kind = "terminal"
                   /\ dp[0][m].value = cfg.utility[m]
        /\ pc = "done" =>
               /\ ret.kind = "terminal"
               /\ ret.value = cfg.utility[intNumberToLog(cfg.initialBalance)]

\* a finished solve without periods that returned a terminal utility of 1
C8_Witness ==
    /\ pc = "done"
    /\ cfg.numPeriods = 0
    /\ ret.value = FromInt(1)

\* C9 as stated: a cell none of whose evaluated candidates has a finite value
\* stores no candidate (the stored value being the maximum, a stored
\* candidate has a finite value), and an empty candidate list stops the solve.
C9_NoFeasibleCandidateFailsFast ==
    /\ \A p \in SolvedPeriods : \A m \in Moneys :
           dp[p][m].kind = "choice" => IsFinite(dp[p][m].value)
    /\ (NumCands = 0 /\ cfg.numPeriods > 0) => pc # "done"

-----------------------------------------------------------------------------
(* Money amounts of the simulator, as exact rationals <<num, den>>.        *)

QZero == <<0, 1>>

QOne == <<1, 1>>

QNeg(a) == <<-a[1], a[2]>>

QAdd(a, b) ==
    LET g == GCD(a[2], b[2])
    IN  Rat(a[1] * (b[2] \div g) + b[1] * (a[2] \div g), (a[2] \div g) * b[2])

QSub(a, b) == QAdd(a, QNeg(b))

QMul(a, b) ==
    IF a[1] = 0 \/ b[1] = 0 THEN QZero
    ELSE LET g1 == GCD(Abs(a[1]), b[2])
             g2 == GCD(Abs(b[1]), a[2])
         IN  <<(a[1] \div g1) * (b[1] \div g2), (a[2] \div g2) * (b[2] \div g1)>>

\* a / b for b # 0
QDiv(a, b) ==
    IF b[1] > 0 THEN QMul(a, <<b[2], b[1]>>) ELSE QMul(a, <<-b[2], -b[1]>>)

QPositive(a) == a[1] > 0

QNegative(a) == a[1] < 0

-----------------------------------------------------------------------------
(* strategy.py: Basket, getBasketFromStockExposures and                    *)
(* ConstantExposuresStrategy; utils.py: the price data.  The data of one   *)
(* date is a quote: the instruments that have a row for the date, their    *)
(* Close and their Dividends.                                              *)

\* Basket(): no positions, no cash
EmptyBasket == [stockPositions |-> <<>>, cash |-> QZero]

\* Basket(cash=cash)
CashBasket(cash) == [stockPositions |-> <<>>, cash |-> cash]

\* getStockPriceForDate: data.loc[date]["Close"], a KeyError without a row
HasRow(stockName, quote) == stockName \in quote.rows

\* mutant: the dividend of the date is part of the price
getStockPriceForDateWithDividend(stockName, quote) ==
    FromInt(quote.close[stockName] + quote.dividends[stockName])

getStockPriceForDate(stockName, quote) == FromInt(quote.close[stockName])

getDividendForDate(stockName, quote) == FromInt(quote.dividends[stockName])

isStockTradingDay(stockName, quote) == stockName \in quote.rows

\* Basket.getPositionValue
getPositionValue(basket, stockName, quote, adjustForDividends) ==
    QMul(basket.stockPositions[stockName],
         QAdd(getStockPriceForDate(stockName, quote),
              IF adjustForDividends THEN getDividendForDate(stockName, quote)
              ELSE QZero))

RECURSIVE SumPositionValues(_, _, _, _)
SumPositionValues(basket, names, quote, adjustForDividends) ==
    IF names = {} THEN QZero
    ELSE LET n == CHOOSE x \in names : TRUE
         IN  QAdd(getPositionValue(basket, n, quote, adjustForDividends),
                  SumPositionValues(basket, names \ {n}, quote, adjustForDividends))

\* Basket.getCashValue: the price of every held instrument is looked up
getCashValue(basket, quote, adjustForDividends) ==
    LET held == DOMAIN basket.stockPositions
    IN  IF \A n \in held : HasRow(n, quote)
        THEN [raised |-> "none",
              value  |-> QAdd(SumPositionValues(basket, held, quote, adjustForDividends),
                              basket.cash)]
        ELSE [raised |-> "KeyError", value |-> QZero]

\* sum(stockExposures.values()), and the traded part of it
RECURSIVE SumExposures(_, _, _, _)
SumExposures(stockExposures, k, quote, skipNotTraded) ==
    IF k > Len(stockExposures) THEN QZero
    ELSE LET rest == SumExposures(stockExposures, k + 1, quote, skipNotTraded)
         IN  IF skipNotTraded /\ ~isStockTradingDay(stockExposures[k].name, quote)
             THEN rest
             ELSE QAdd(stockExposures[k].exposure, rest)

\* the second loop of getBasketFromStockExposures, from entry k on
RECURSIVE FillPositions(_, _, _, _, _, _, _)
FillPositions(stockExposures, k, quote, basketValue, scale, skipNotTraded, basket) ==
    IF k > Len(stockExposures) THEN [raised |-> "none", basket |-> basket]
    ELSE LET e == stockExposures[k]
         IN  IF skipNotTraded /\ ~isStockTradingDay(e.name, quote)
             THEN FillPositions(stockExposures, k + 1, quote, basketValue, scale,
                                skipNotTraded, basket)
             ELSE IF ~HasRow(e.name, quote)
             THEN [raised |-> "KeyError", basket |-> basket]
             ELSE LET stockValue == QMul(QMul(basketValue, e.exposure), scale)
                      position   == QDiv(stockValue, getStockPriceForDate(e.name, quote))
                  IN  FillPositions(stockExposures, k + 1, quote, basketValue, scale,
                                    skipNotTraded,
                                    [stockPositions |->
                                         (e.name :> position) @@ basket.stockPositions,
                                     cash |-> QSub(basket.cash, stockValue)])

\* mutant: instruments without a row for the date are skipped whatever
\* skipNotTraded says
getBasketFromStockExposuresSkipping(stockExposures, quote, basketValue, skipNotTraded) ==
    LET totalExporsures == SumExposures(stockExposures, 1, quote, FALSE)
        tradedExposure  == SumExposures(stockExposures, 1, quote, TRUE)
    IN  IF tradedExposure = QZero
        THEN [raised |-> "ValueError", basket |-> CashBasket(basketValue)]
        ELSE FillPositions(stockExposures, 1, quote, basketValue,
                           QDiv(totalExporsures, tradedExposure), TRUE,
                           CashBasket(basketValue))

getBasketFromStockExposures(stockExposures, quote, basketValue, skipNotTraded) ==
    LET totalExporsures == SumExposures(stockExposures, 1, quote, FALSE)
        tradedExposure  == SumExposures(stockExposures, 1, quote, skipNotTraded)
    IN  IF tradedExposure # totalExporsures /\ ~skipNotTraded
        THEN [raised |-> "ValueError", basket |-> CashBasket(basketValue)]
        ELSE IF tradedExposure = QZero
        THEN [raised |-> "ValueError", basket |-> CashBasket(basketValue)]
        ELSE FillPositions(stockExposures, 1, quote, basketValue,
                           QDiv(totalExporsures, tradedExposure), skipNotTraded,
                           CashBasket(basketValue))

\* ConstantExposuresStrategy.getPositionsFromBasket
getPositionsFromBasket(stockExposures, quote, currentBasket) ==
    LET v == getCashValue(currentBasket, quote, TRUE)
    IN  IF v.raised # "none" THEN [raised |-> v.raised, basket |-> currentBasket]
        ELSE getBasketFromStockExposures(stockExposures, quote, v.value, FALSE)

-----------------------------------------------------------------------------
(* simulation.py: simulate.  The trading days are 1 .. tradingDays; day d  *)
(* has the quote quotes[d] and the income dailyIncome[d].                  *)

\* the longest run of trading days
MaxDays == 2

InstrumentNames == {"SPY", "TLT"}

Quote(rows, spyClose, tltClose, spyDividend) ==
    [rows      |-> rows,
     close     |-> [n \in InstrumentNames |-> IF n = "SPY" THEN spyClose ELSE tltClose],
     dividends |-> [n \in InstrumentNames |-> IF n = "SPY" THEN spyDividend ELSE 0]]

\* the data of a date: both instruments quoted (SPY at 2 or at 1, with or
\* without a dividend), or one of them without a row for the date
Quotes ==
    {Quote(InstrumentNames, 2, 1, 0), Quote(InstrumentNames, 1, 1, 0),
     Quote(InstrumentNames, 2, 1, 1), Quote({"SPY"}, 2, 0, 0), Quote({"TLT"}, 0, 1, 0)}

Exposure(name, num, den) == [name |-> name, exposure |-> <<num, den>>]

\* stockExposures of the strategy, in dict order: fully invested, leveraged,
\* two instruments, and exposures that sum to zero
StockExposureLists ==
    {<<Exposure("SPY", 1, 1)>>, <<Exposure("SPY", 3, 2)>>,
     <<Exposure("SPY", 1, 2), Exposure("TLT", 1, 2)>>,
     <<Exposure("SPY", 0, 1), Exposure("TLT", 0, 1)>>}

\* dailyIncome(date)
DailyIncomes == {QZero, QOne}

\* the fedFundsRate series, in percent
FedFundsRates == {<<13, 2>>}

SimInitialBalances == {QOne}

\* SPREAD = 0.015
SPREAD == <<3, 200>>

NoResult == [returned |-> FALSE, initialBalance |-> QZero, endBalance |-> QZero]

SimConfigs ==
    UNION {
        [at                  : {"start"},
         stockExposures      : StockExposureLists,
         tradingDays         : {N},
         quotes              : [1 .. N -> Quotes],
         dailyIncome         : [1 .. N -> DailyIncomes],
         fedFundsRate        : FedFundsRates,
         initialBalance      : SimInitialBalances,
         day                 : {1},
         basket              : {EmptyBasket},
         balancePerDay       : {<<>>},
         basketsPerDay       : {<<>>},
         contributionsPerDay : {<<>>},
         error               : {"none"},
         result              : {NoResult}] : N \in 0 .. MaxDays}

\* the configuration of a solver that is not run
IdleConfig ==
    [numPeriods |-> 0, utility |-> [m \in Moneys |-> FromInt(m)], lossAversion |-> 0,
     dailyIncome |-> <<>>, distributions |-> <<>>,
     initialBalance |-> logToNumber(1)]

SimInit ==
    /\ sim \in SimConfigs
    /\ cfg = IdleConfig
    /\ dp = [p \in 0 .. 0 |-> [m \in Moneys |-> EmptyCell]]
    /\ stack = <<>>
    /\ pc = "idle"
    /\ period = 0
    /\ ret = EmptyCell
    /\ writes = [p \in 0 .. 0 |-> [m \in Moneys |-> 0]]
    /\ terms = {}
    /\ calls = 0
    /\ heap = <<>>
    /\ lookup = NoLookup
    /\ probe = NoProbe
    /\ front = NoFront

\* mutant: the error of a day is swallowed and the run goes on to the next day
RaiseSkipsDay(s, err) == [s EXCEPT !.day = @ + 1]

\* an exception raised inside simulate: no handler, the call ends without a
\* SimulationResult
Raise(s, err) == [s EXCEPT !.at = "raised", !.error = err]

\* mutant: the spread is subtracted whatever the sign of the cash
AccrueSymmetric(cash, fedFundsRate) ==
    QMul(cash,
         QAdd(QOne, QDiv(QSub(QDiv(fedFundsRate, FromInt(100)), SPREAD), FromInt(250))))

\* lines 215-220: interest on the cash of the day
Accrue(cash, fedFundsRate) ==
    LET interestRate == QDiv(fedFundsRate, FromInt(100))
    IN  QMul(cash,
             IF QPositive(cash)
             THEN QAdd(QOne, QDiv(QSub(interestRate, SPREAD), FromInt(250)))
             ELSE QAdd(QOne, QDiv(QAdd(interestRate, SPREAD), FromInt(250))))

\* mutant: interest is accrued before the income of the day is added
CashAfterDayInterestFirst(cash, income, fedFundsRate) ==
    QAdd(Accrue(cash, fedFundsRate), income)

\* lines 215-221: the income of the day is added to cash, then interest is
\* accrued on the sum
CashAfterDay(cash, income, fedFundsRate) ==
    Accrue(QAdd(cash, income), fedFundsRate)

\* mutant: the first day is treated as every later day
FirstDayAsLaterDays(basket, quote, income, fedFundsRate) ==
    LET b == [basket EXCEPT !.cash = CashAfterDay(basket.cash, income, fedFundsRate)]
    IN  [basket       |-> b,
         balance      |-> getCashValue(b, quote, FALSE).value,
         contribution |-> income]

\* lines 200-211: what is recorded for tradingDays[0]; neither the income of
\* the date nor the fedFundsRate is read
FirstDay(basket, quote, income, fedFundsRate) ==
    [basket       |-> basket,
     balance      |-> getCashValue(basket, quote, FALSE).value,
     contribution |-> QZero]

\* dict[key] = value
Put(dict, key, value) == (key :> value) @@ dict

\* lines 186-211: the trading days and the first of them
SimStart ==
    /\ sim.at = "start"
    /\ sim.day = 1
    /\ IF sim.tradingDays = 0
       THEN sim' = Raise(sim, "IndexError")
       ELSE LET date == 1
                t    == getPositionsFromBasket(sim.stockExposures, sim.quotes[date],
                                               CashBasket(sim.initialBalance))
            IN  IF t.raised # "none"
                THEN sim' = Raise(sim, t.raised)
                ELSE LET first == FirstDay(t.basket, sim.quotes[date],
                                           sim.dailyIncome[date], sim.fedFundsRate)
                     IN  sim' = [sim EXCEPT
                             !.at = "loop",
                             !.day = 2,
                             !.basket = first.basket,
                             !.balancePerDay = Put(@, date, first.balance),
                             !.basketsPerDay = Put(@, date, first.basket),
                             !.contributionsPerDay = Put(@, date, first.contribution)]
    /\ UNCHANGED <<solverVars, restVars>>

\* lines 213-224: one iteration of the loop over tradingDays[1:]
SimDay ==
    /\ sim.at = "loop"
    /\ sim.day <= sim.tradingDays
    /\ LET date == sim.day
           t    == getPositionsFromBasket(sim.stockExposures, sim.quotes[date], sim.basket)
       IN  IF t.raised # "none"
           THEN sim' = Raise(sim, t.raised)
           ELSE LET basket == [t.basket EXCEPT
                                  !.cash = CashAfterDay(t.basket.cash, sim.dailyIncome[date],
                                                        sim.fedFundsRate)]
                IN  sim' = [sim EXCEPT
                        !.day = @ + 1,
                        !.basket = basket,
                        !.balancePerDay =
                            Put(@, date, getCashValue(basket, sim.quotes[date], FALSE).value),
                        !.basketsPerDay = Put(@, date, basket),
                        !.contributionsPerDay = Put(@, date, sim.dailyIncome[date])]
    /\ UNCHANGED <<solverVars, restVars>>

\* lines 226-235: the SimulationResult
SimReturn ==
    /\ sim.at = "loop"
    /\ sim.day > sim.tradingDays
    /\ sim' = [sim EXCEPT
           !.at = "returned",
           !.result = [returned       |-> TRUE,
                       initialBalance |-> sim.initialBalance,
                       endBalance     |->
                           getCashValue(sim.basket, sim.quotes[sim.tradingDays],
                                        FALSE).value]]
    /\ UNCHANGED <<solverVars, restVars>>

SimNext ==
    \/ SimStart
    \/ SimDay
    \/ SimReturn

SimSpec == SimInit /\ [][SimNext]_vars

-----------------------------------------------------------------------------
(* Properties of the simulator.                                            *)

\* the days for which simulate holds a balance, a basket or a contribution
RecordedDays ==
    DOMAIN sim.balancePerDay \cup DOMAIN sim.basketsPerDay
        \cup DOMAIN sim.contributionsPerDay

\* the strategy's translation call raises on day d: the total exposure is
\* zero, or an instrument of the strategy has no price for the date (neither
\* depends on the value of the basket)
TranslationRaises(d) ==
    getBasketFromStockExposures(sim.stockExposures, sim.quotes[d], QOne, FALSE).raised
        # "none"

ExposureNames == {sim.stockExposures[k].name : k \in 1 .. Len(sim.stockExposures)}

\* C10: if the translation call raises on a trading day, simulate ends with
\* that error and returns no SimulationResult, and holds no record for that
\* day or a later one; the days recorded are always exactly the days before
\* the current one (none skipped) and every recorded basket is a complete
\* translation (a position for every instrument of the strategy).
C10_TranslationFailureIsFatal ==
    /\ \A d \in 1 .. sim.tradingDays :
           TranslationRaises(d) =>
               /\ sim.at # "returned"
               /\ ~sim.result.returned
               /\ RecordedDays \subseteq 1 .. (d - 1)
               /\ sim.day <= d
    /\ sim.at = "raised" =>
           /\ ~sim.result.returned
           /\ sim.error # "none"
           /\ sim.tradingDays > 0 => TranslationRaises(sim.day)
    /\ sim.at = "returned" => sim.result.returned /\ sim.error = "none"
    /\ sim.at # "start" =>
           /\ DOMAIN sim.balancePerDay = 1 .. (sim.day - 1)
           /\ DOMAIN sim.basketsPerDay = 1 .. (sim.day - 1)
           /\ DOMAIN sim.contributionsPerDay = 1 .. (sim.day - 1)
    /\ \A d \in DOMAIN sim.basketsPerDay :
           DOMAIN sim.basketsPerDay[d].stockPositions = ExposureNames

\* the translation of the second day raised after the first instrument of the
\* strategy had been given its position: the first day is recorded, the
\* second is not, and there is no result
C10_Witness ==
    /\ sim.at = "raised"
    /\ sim.error = "KeyError"
    /\ sim.tradingDays >= 2
    /\ sim.day = 2
    /\ Len(sim.stockExposures) = 2
    /\ sim.quotes[2].rows = {"SPY"}
    /\ RecordedDays = {1}
    /\ ~sim.result.returned

-----------------------------------------------------------------------------
(* DynamicOptimisationStrategy.getPositionsFromBasket: the lookups that    *)
(* the simulator makes in the finished PolicyTable.                        *)

\* round(log_LOG_BASE(n / d)) for integers n >= d >= 1: the least j with
\* n^2 < LOG_BASE^(2j+1) * d^2.  pw = LOG_BASE^(2j).
RECURSIVE RoundLogRatioFrom(_, _, _, _)
RoundLogRatioFrom(n, d, j, pw) ==
    IF n * n < LOG_BASE * pw * d * d THEN j
    ELSE RoundLogRatioFrom(n, d, j + 1, pw * LOG_BASE * LOG_BASE)

\* round(log_LOG_BASE(q)) of a rational q > 0 (no tie occurs)
RoundLogQ(q) ==
    IF q[1] >= q[2] THEN RoundLogRatioFrom(q[1], q[2], 0, 1)
    ELSE -RoundLogRatioFrom(q[2], q[1], 0, 1)

\* round(numberToLog(cashValue)) of a rational wealth > 0, in wealth units
roundNumberToLogQ(q) == RoundLogQ(q) - 2 * NEGATIVE_STEPS + NEGATIVE_STEPS

\* INDEX_TO_INSTRUMENT.get(instrument, instrument)
INDEX_TO_INSTRUMENT(instrument) ==
    CASE instrument = "^IXIC" -> "QQQ"
      [] instrument = "^GSPC" -> "SPY"
      [] instrument = "^DJI" -> "DIA"
      [] instrument = "^NYA" -> "VTI"
      [] instrument = "^RUT" -> "IWM"
      [] instrument = "VBMFX" -> "BND"
      [] OTHER -> instrument

\* the dict comprehension of lines 95-98 on a portfolio mapping
RenamedPortfolio(portfolio) ==
    [n \in {INDEX_TO_INSTRUMENT(i) : i \in DOMAIN portfolio} |->
        portfolio[CHOOSE i \in DOMAIN portfolio : INDEX_TO_INSTRUMENT(i) = n]]

\* the order in which the instruments were inserted into every portfolio
InstrumentOrder == <<"^GSPC", "SPY", "VBMFX", "BND">>

\* portfolio.items(): the exposures (weights in percent) in insertion order
RECURSIVE PortfolioItems(_, _)
PortfolioItems(portfolio, k) ==
    IF k > Len(InstrumentOrder) THEN <<>>
    ELSE IF InstrumentOrder[k] \in DOMAIN portfolio
    THEN <<[name |-> InstrumentOrder[k],
            exposure |-> Rat(portfolio[InstrumentOrder[k]], 100)]>>
             \o PortfolioItems(portfolio, k + 1)
    ELSE PortfolioItems(portfolio, k + 1)

\* mutant: the renaming is applied to the stored Distribution itself
HeapAfterRenameInPlace(h, periodIdx, k, renamed) ==
    [h EXCEPT ![periodIdx][k] = renamed]

\* optimalPortfolio = deepcopy(optimalPortfolio): the renaming of lines 95-98
\* assigns to the copy, the stored Distribution keeps its mapping
HeapAfterRename(h, periodIdx, k, renamed) == h

PolicyInstruments == {"SPY", "BND"}

PolicyQuote(rows, spyClose, bndClose) ==
    [rows      |-> rows,
     close     |-> [n \in PolicyInstruments |-> IF n = "SPY" THEN spyClose ELSE bndClose],
     dividends |-> [n \in PolicyInstruments |-> 0]]

\* the data of the date of a lookup: both ETFs quoted, or BND without a row
PolicyQuotes == {PolicyQuote(PolicyInstruments, 2, 1), PolicyQuote({"SPY"}, 2, 0)}

\* cash of the basket handed to a lookup, in wealth units: nothing, below the
\* grid, on a grid point, between grid points, and above the grid
PolicyCash ==
    {0, 1, logToNumber(1), 3 * logToNumber(0), logToNumber(TOTAL_STEPS)}

\* the result of one call of getPositionsFromBasket(date, currentBasket) for
\* a date of period periodIdx
LookupResult(periodIdx, quote, currentBasket) ==
    LET v == getCashValue(currentBasket, quote, TRUE)
        raisedAt(err, site) ==
            [raised |-> err, site |-> site, called |-> TRUE, periodIdx |-> periodIdx,
             cashValue |-> IF v.raised = "none" THEN v.value ELSE QZero,
             logMoney |-> 0, portfolio |-> <<>>, basket |-> EmptyBasket]
    IN  IF v.raised # "none" THEN raisedAt(v.raised, "getCashValue")
        ELSE IF ~QPositive(v.value) THEN raisedAt("ValueError", "round")
        ELSE LET logMoney == Max(roundNumberToLogQ(v.value), 0)
             IN  IF logMoney \notin DOMAIN dp[periodIdx]
                 THEN [raisedAt("KeyError", "self.dp") EXCEPT !.logMoney = logMoney]
                 ELSE LET cell    == dp[periodIdx][logMoney]
                          renamed == RenamedPortfolio(heap[periodIdx][cell.idx + 1])
                          t       == getBasketFromStockExposures(
                                         PortfolioItems(renamed, 1), quote, v.value, FALSE)
                      IN  [raised |-> t.raised,
                           site |-> IF t.raised = "none" THEN "none"
                                    ELSE "getBasketFromStockExposures",
                           called |-> TRUE,
                           periodIdx |-> periodIdx, cashValue |-> v.value,
                           logMoney |-> logMoney,
                           portfolio |-> renamed,
                           basket |-> IF t.raised = "none" THEN t.basket ELSE EmptyBasket]

\* lines 78-104: one call of getPositionsFromBasket on the constructed strategy
DosLookup ==
    /\ pc = "done"
    /\ \E periodIdx \in 0 .. (cfg.numPeriods - 1), quote \in PolicyQuotes, cash \in PolicyCash :
           LET r == LookupResult(periodIdx, quote, CashBasket(FromInt(cash)))
           IN  /\ lookup' = r
               /\ heap' = IF r.portfolio = <<>> THEN heap
                          ELSE HeapAfterRename(heap, periodIdx,
                                               dp[periodIdx][r.logMoney].idx + 1, r.portfolio)
    /\ UNCHANGED <<solverVars, sim, probe, front>>

\* the strategies whose lookups are explored: linear terminal utility, no
\* loss aversion
PolicyConfigs ==
    {c \in Configs : c.utility = [m \in Moneys |-> FromInt(m)] /\ c.lossAversion = 0}

PolicyInit == Init /\ cfg \in PolicyConfigs

PolicyNext == Next \/ DosLookup

PolicySpec == PolicyInit /\ [][PolicyNext]_vars

-----------------------------------------------------------------------------
(* Financing accrual of the simulator.                                     *)

\* the cash of day d once the day's income has been added, before interest:
\* the cash of the basket translated from the basket recorded for day d - 1,
\* plus dailyIncome(d)
CashBeforeInterest(d) ==
    QAdd(getPositionsFromBasket(sim.stockExposures, sim.quotes[d],
                                sim.basketsPerDay[d - 1]).basket.cash,
         sim.dailyIncome[d])

\* 1 + (riskFreeRate + sign * spread) / dayCount, riskFreeRate = fedFundsRate / 100
DailyFactor(sign, dayCount) ==
    QAdd(QOne,
         QDiv(QAdd(QDiv(sim.fedFundsRate, FromInt(100)),
                   IF sign > 0 THEN SPREAD ELSE QNeg(SPREAD)),
              FromInt(dayCount)))

\* the recorded cash of every day after the first is its cash before
\* interest times the factor of its sign, for a day count
AccruedWithDayCount(dayCount) ==
    \A d \in DOMAIN sim.basketsPerDay :
        d >= 2 =>
            LET c == CashBeforeInterest(d)
            IN  sim.basketsPerDay[d].cash =
                    IF QPositive(c) THEN QMul(c, DailyFactor(-1, dayCount))
                    ELSE IF QNegative(c) THEN QMul(c, DailyFactor(1, dayCount))
                    ELSE QZero

\* C12 as stated: on each day after the first, once the income has been
\* added, cash is multiplied by 1 + (riskFreeRate - spread)/360 when positive
\* and by 1 + (riskFreeRate + spread)/360 when negative; zero stays zero.
C12_AccrualOver360 == AccruedWithDayCount(360)

\* C12 amended: the same with the day count 250: positive cash is multiplied
\* by 1 + (riskFreeRate - spread)/250, negative cash by
\* 1 + (riskFreeRate + spread)/250, zero cash stays zero.
C12_AccrualOver250 == AccruedWithDayCount(250)

\* the second day of a leveraged run is recorded: its cash before interest
\* was negative and the recorded cash is larger in size
C12_Witness ==
    /\ 2 \in DOMAIN sim.basketsPerDay
    /\ QNegative(CashBeforeInterest(2))
    /\ QNegative(QSub(sim.basketsPerDay[2].cash, CashBeforeInterest(2)))

-----------------------------------------------------------------------------
(* WealthGrid on the reals.  A real index is held as log_LOG_BASE(arg) +   *)
(* plus for a rational arg > 0 and an integer plus, so that numberToLog    *)
(* and logToNumber are computed exactly as distribution.py writes them.   *)

MaxGridWealth == 12

\* LOG_BASE ** e for an integer e of either sign
LogBasePow(e) ==
    IF e >= 0 THEN FromInt(Pow(LOG_BASE, e)) ELSE <<1, Pow(LOG_BASE, -e)>>

\* an integer index
IndexOf(k) == [arg |-> QOne, plus |-> k]

\* the rational whose log_LOG_BASE is the real index x
RealOf(x) == QMul(x.arg, LogBasePow(x.plus))

\* x = y as reals
SameReal(x, y) == RealOf(x) = RealOf(y)

\* np.log(number / MONEY_BASE) / np.log(LOG_BASE) + NEGATIVE_STEPS
numberToLog(number) ==
    [arg |-> QDiv(number, FromInt(MONEY_BASE)), plus |-> NEGATIVE_STEPS]

\* mutant: the offset of the index is added instead of subtracted
logToNumberOffsetAdded(x) ==
    QMul(QMul(x.arg, LogBasePow(x.plus + NEGATIVE_STEPS)), FromInt(MONEY_BASE))

\* LOG_BASE ** (log - NEGATIVE_STEPS) * MONEY_BASE; LOG_BASE ** log_LOG_BASE(arg) = arg
logToNumberReal(x) ==
    QMul(QMul(x.arg, LogBasePow(x.plus - NEGATIVE_STEPS)), FromInt(MONEY_BASE))

\* wealths in wealth units: on and off the grid, below and above MONEY_BASE
GridWealths == {Rat(n, d) : n \in 1 .. MaxGridWealth, d \in 1 .. 4}

\* real indices: the integers around the grid and points between them
GridIndices ==
    [arg : {QOne, <<3, 1>>, <<3, 2>>, <<1, 5>>},
     plus : (0 - NEGATIVE_STEPS - 1) .. TOTAL_STEPS]

\* the state of the solver while it is not run
SolverIdle ==
    /\ cfg = IdleConfig
    /\ dp = [p \in 0 .. 0 |-> [m \in Moneys |-> EmptyCell]]
    /\ stack = <<>>
    /\ pc = "idle"
    /\ period = 0
    /\ ret = EmptyCell
    /\ writes = [p \in 0 .. 0 |-> [m \in Moneys |-> 0]]
    /\ terms = {}
    /\ calls = 0
    /\ sim = SimIdle
    /\ heap = <<>>
    /\ lookup = NoLookup
    /\ front = NoFront

GridInit ==
    /\ SolverIdle
    /\ \/ probe \in [fn : {"wealth"}, w : GridWealths, x : {IndexOf(0)},
                     back : {QZero}, done : {FALSE}]
       \/ probe \in [fn : {"index"}, w : {QZero}, x : GridIndices,
                     back : {QZero}, done : {FALSE}]

\* logToNumber(numberToLog(w))
RoundTripWealth ==
    /\ probe.fn = "wealth"
    /\ ~probe.done
    /\ probe' = [probe EXCEPT !.x = numberToLog(probe.w),
                              !.back = logToNumberReal(numberToLog(probe.w)),
                              !.done = TRUE]
    /\ UNCHANGED <<solverVars, sim, heap, lookup, front>>

\* numberToLog(logToNumber(x)), kept in back as the rational of the index
RoundTripIndex ==
    /\ probe.fn = "index"
    /\ ~probe.done
    /\ probe' = [probe EXCEPT !.w = logToNumberReal(probe.x),
                              !.back = RealOf(numberToLog(logToNumberReal(probe.x))),
                              !.done = TRUE]
    /\ UNCHANGED <<solverVars, sim, heap, lookup, front>>

GridNext == RoundTripWealth \/ RoundTripIndex

GridSpec == GridInit /\ [][GridNext]_vars

\* C13: logToNumber(numberToLog(w)) is w for every wealth w > 0, and
\* numberToLog(logToNumber(x)) is x for every real index x; on the integer
\* indices the solver converts, logToNumber is the power it uses.
C13_RoundTrip ==
    probe.done =>
        /\ probe.fn = "wealth" => probe.back = probe.w
        /\ probe.fn = "index" =>
               /\ probe.back = RealOf(probe.x)
               /\ (probe.x.arg = QOne /\ probe.x.plus >= 0 - NEGATIVE_STEPS) =>
                      probe.w = FromInt(logToNumber(probe.x.plus))

\* a wealth between two grid points went through both maps
C13_Witness ==
    /\ probe.done
    /\ probe.fn = "wealth"
    /\ probe.w = <<5, 3>>
    /\ probe.x = [arg |-> <<5, 3 * MONEY_BASE>>, plus |-> NEGATIVE_STEPS]
    /\ probe.back = <<5, 3>>

-----------------------------------------------------------------------------
(* Distribution.getSignificantProbabilities on every normalised            *)
(* Distribution of the grid.                                               *)

\* the mass of a normalised Distribution, in the unit of the candidates
TotalMass == SumMass(DistHold.probabilities, Moneys)

\* what getLognormDistribution can hand out: the probabilities of the grid
\* cells, summing to 1
NormalisedDistributions ==
    {[probabilities |-> f, portfolio |-> <<>>] :
        f \in {g \in [Moneys -> 0 .. TotalMass] : SumMass(g, Moneys) = TotalMass}}

SupportInit ==
    /\ SolverIdle
    /\ probe \in [fn : {"support"}, dist : NormalisedDistributions, out : {<<>>},
                  done : {FALSE}]

\* list(dist.getSignificantProbabilities())
ApplySignificant ==
    /\ probe.fn = "support"
    /\ ~probe.done
    /\ probe' = [probe EXCEPT !.out = getSignificantProbabilities(probe.dist),
                              !.done = TRUE]
    /\ UNCHANGED <<solverVars, sim, heap, lookup, front>>

SupportNext == ApplySignificant

SupportSpec == SupportInit /\ [][SupportNext]_vars

RECURSIVE SumOfNums(_, _)
SumOfNums(out, k) == IF k > Len(out) THEN 0 ELSE out[k].num + SumOfNums(out, k + 1)

MaxGammas == 3

\* constants.MAX_LEVERAGE
MAX_LEVERAGE == 2

\* weights are counted in units of 1e-4
WeightUnit == 10000

\* cumulative probabilities are counted in millionths
CdfUnit == 1000000

\* what one cp.Problem(...).solve() leaves in weights.value,
\* portfolio_return.value and sqrt(portfolio_variance).value; all three are
\* None when the solver finds no solution.  weights are <<^GSPC, CASH>>.
Point(portfolioReturn, portfolioStd, gspc) ==
    [solved |-> TRUE, ret |-> portfolioReturn, std |-> portfolioStd,
     weights |-> <<gspc, WeightUnit - gspc>>]

Unsolved == [solved |-> FALSE, ret |-> 0, std |-> 0, weights |-> <<>>]

SolvedPoints ==
    { Point(0, 0, 0),
      Point(1, 1, WeightUnit \div 2),
      Point(1, 2, WeightUnit \div 2),
      Point(2, 1, WeightUnit),
      Point(2, 2, WeightUnit),
      Point(3, 1, MAX_LEVERAGE * WeightUnit + 1),
      Point(3, 1, MAX_LEVERAGE * WeightUnit + 2),
      Point(3, 3, MAX_LEVERAGE * WeightUnit),
      Point(4, 1, MAX_LEVERAGE * WeightUnit) }

SolverOutcomes == SolvedPoints \cup {Unsolved}

\* the outcomes of the successive solves, one per gamma
GammaScans == [1 .. MaxGammas -> SolverOutcomes]

\* stats.lognorm.cdf(x, s=std, scale=exp(mean)) at the upper boundary of each
\* cell: NaN everywhere for s <= 0, otherwise non-decreasing in the cell.  A
\* narrow law (std 1) steps from 0 to 1 at its median cell, which may lie above
\* the grid; wider laws leave a tail below cell 0 and, for a high median, part
\* of their mass above the grid.
LognormCdf(mean, std) ==
    IF std <= 0 THEN [nan |-> TRUE, values |-> [i \in Moneys |-> 0]]
    ELSE IF std = 1
    THEN [nan |-> FALSE,
          values |-> [i \in Moneys |->
                         IF i >= NEGATIVE_STEPS + (mean \div 2) THEN CdfUnit ELSE 0]]
    ELSE LET tail == IF std = 2 THEN 6 ELSE 5
             top  == IF mean >= 2 THEN CdfUnit \div 2 ELSE CdfUnit
         IN  [nan |-> FALSE,
              values |-> [i \in Moneys |->
                             IF i = 0 THEN tail
                             ELSE IF i = TOTAL_STEPS - 1 THEN top
                             ELSE top \div 2]]

\* np.diff(cdf_values, prepend=0.0)
Diff(values) ==
    [i \in Moneys |-> IF i = 0 THEN values[0] ELSE values[i] - values[i - 1]]

\* pdf_values /= sum(pdf_values): cell i then holds probabilities[i] / mass;
\* 0 / 0 is NaN in every cell
Normalise(pdf) ==
    LET total == SumMass(pdf, Moneys)
    IN  IF total = 0
        THEN [nan |-> TRUE, probabilities |-> [i \in Moneys |-> 0], mass |-> 0]
        ELSE [nan |-> FALSE, probabilities |-> pdf, mass |-> total]

\* getLognormDistribution: the Distribution is built from whatever the
\* division leaves; the constructor checks nothing
getLognormDistribution(mean, std) ==
    LET cdf_values == LognormCdf(mean, std)
    IN  IF cdf_values.nan
        THEN [nan |-> TRUE, probabilities |-> [i \in Moneys |-> 0], mass |-> 0,
              portfolio |-> <<>>]
        ELSE LET n == Normalise(Diff(cdf_values.values))
             IN  [nan |-> n.nan, probabilities |-> n.probabilities,
                  mass |-> n.mass, portfolio |-> <<>>]

\* mutant: the scan goes on past an equal return
StopsScanOnDecreaseOnly(value, last) == value < last

\* portfolio_return.value <= efficient_frontier[-1][1]
StopsScan(value, last) == value <= last

\* the for loop of find_efficient_frontier from the k-th gamma on.  Comparing
\* with None (an unsolved point on either side) raises TypeError.
RECURSIVE ScanGammas(_, _, _)
ScanGammas(points, k, efficient_frontier) ==
    IF k > Len(points)
    THEN [raised |-> FALSE, frontier |-> efficient_frontier]
    ELSE IF efficient_frontier = <<>>
    THEN ScanGammas(points, k + 1, <<points[k]>>)
    ELSE LET last == efficient_frontier[Len(efficient_frontier)]
         IN  IF ~points[k].solved \/ ~last.solved
             THEN [raised |-> TRUE, frontier |-> <<>>]
             ELSE IF StopsScan(points[k].ret, last.ret)
             THEN [raised |-> FALSE, frontier |-> efficient_frontier]
             ELSE ScanGammas(points, k + 1, Append(efficient_frontier, points[k]))

find_efficient_frontier(points) == ScanGammas(points, 1, <<>>)

\* {instrument: round(weight, 5) ... if abs(weight) > 1e-5 and instrument != CASH}
PortfolioOf(weights) ==
    IF Abs(weights[1]) * 10 > WeightUnit \div 10000
    THEN [i \in {"^GSPC"} |-> weights[1]]
    ELSE <<>>

\* all(abs(weight) <= MAX_LEVERAGE + 1e-4 for weight in weights)
WeightsWithinLeverage(weights) ==
    \A j \in 1 .. Len(weights) : Abs(weights[j]) <= MAX_LEVERAGE * WeightUnit + 1

\* mutant: the assertion on cell 0 is dropped
ZeroCellNegligibleUnchecked(dist) == TRUE

\* mutant: a mass of exactly 1e-5 in cell 0 passes
ZeroCellNegligibleInclusive(dist) ==
    /\ ~dist.nan
    /\ dist.probabilities[0] * 100000 <= dist.mass

\* newDistribution.probabilities[0] < 1e-5; a comparison with NaN is False
ZeroCellNegligible(dist) ==
    /\ ~dist.nan
    /\ dist.probabilities[0] * 100000 < dist.mass

\* one pass of the loop body of getExpectedDistributions over a frontier point:
\* the Distribution that was built, and the assertion that failed if any
LoopBody(point) ==
    LET built == getLognormDistribution(point.ret, point.std)
        newDistribution == [built EXCEPT !.portfolio = PortfolioOf(point.weights)]
    IN  IF ~WeightsWithinLeverage(point.weights)
        THEN [raised |-> "weights", built |-> newDistribution]
        ELSE IF ~ZeroCellNegligible(newDistribution)
        THEN [raised |-> "newDistribution", built |-> newDistribution]
        ELSE [raised |-> "none", built |-> newDistribution]

FrontIdle ==
    /\ cfg = IdleConfig
    /\ dp = [p \in 0 .. 0 |-> [m \in Moneys |-> EmptyCell]]
    /\ stack = <<>>
    /\ pc = "idle"
    /\ period = 0
    /\ ret = EmptyCell
    /\ writes = [p \in 0 .. 0 |-> [m \in Moneys |-> 0]]
    /\ terms = {}
    /\ calls = 0
    /\ sim = SimIdle
    /\ heap = <<>>
    /\ lookup = NoLookup
    /\ probe = NoProbe

\* getExpectedDistributions is entered; the solver's outcomes are its input
FrontierInit ==
    /\ FrontIdle
    /\ front \in [at : {"scan"}, points : GammaScans, frontier : {<<>>},
                  i : {1}, distributions : {<<>>}, built : {<<>>},
                  raised : {"none"}]

\* the call of find_efficient_frontier that the for statement iterates over
FindFrontier ==
    /\ front.at = "scan"
    /\ LET r == find_efficient_frontier(front.points)
       IN  front' = IF r.raised
                    THEN [front EXCEPT !.at = "raised", !.raised = "TypeError"]
                    ELSE [front EXCEPT !.at = "loop", !.frontier = r.frontier]
    /\ UNCHANGED <<solverVars, sim, heap, lookup, probe>>

\* one iteration of the for loop (lines 76-88)
Discretise ==
    /\ front.at = "loop"
    /\ front.i <= Len(front.frontier)
    /\ LET point == front.frontier[front.i]
       IN  IF ~point.solved
           THEN front' = [front EXCEPT !.at = "raised", !.raised = "TypeError"]
           ELSE LET r == LoopBody(point)
                IN  front' = IF r.raised # "none"
                             THEN [front EXCEPT !.at = "raised",
                                                !.raised = r.raised,
                                                !.built = <<r.built>>]
                             ELSE [front EXCEPT
                                      !.i = front.i + 1,
                                      !.built = <<r.built>>,
                                      !.distributions =
                                          Append(front.distributions, r.built)]
    /\ UNCHANGED <<solverVars, sim, heap, lookup, probe>>

\* return distributions
FrontierReturn ==
    /\ front.at = "loop"
    /\ front.i > Len(front.frontier)
    /\ front' = [front EXCEPT !.at = "returned"]
    /\ UNCHANGED <<solverVars, sim, heap, lookup, probe>>

FrontierNext == FindFrontier \/ Discretise \/ FrontierReturn

FrontierSpec == FrontierInit /\ [][FrontierNext]_vars

\* a Distribution that breaks the invariants of the type: non-finite mass,
\* negative mass, or masses that do not sum to 1
Malformed(dist) ==
    \/ dist.nan
    \/ \E i \in Moneys : dist.probabilities[i] < 0
    \/ SumMass(dist.probabilities, Moneys) # dist.mass

\* C15 as stated: construction itself rejects a malformed discretisation, so
\* no malformed Distribution object ever exists in getExpectedDistributions.
C15_ConstructionRejectsMalformed ==
    front.built # <<>> => ~Malformed(front.built[1])

\* C15: a malformed discretisation is built without error (the constructor
\* checks nothing) and is fatal only through the assertions that follow it in
\* getExpectedDistributions: the call raises, the candidate is not appended,
\* and no list holding a malformed Distribution is ever returned.
C15_MalformedStoppedByAssertion ==
    /\ \A k \in 1 .. Len(front.distributions) : ~Malformed(front.distributions[k])
    /\ (front.built # <<>> /\ Malformed(front.built[1])) =>
           /\ front.at = "raised"
           /\ front.raised \in {"weights", "newDistribution"}
           /\ Len(front.distributions) = front.i - 1
    /\ front.at = "returned" =>
           \A k \in 1 .. Len(front.frontier) :
               ~Malformed(getLognormDistribution(front.frontier[k].ret,
                                                 front.frontier[k].std))

\* a law whose whole mass lies above the grid: the cdf is finite, the
\* division is 0 / 0, the second candidate of the frontier is all NaN and the
\* assertion on cell 0 stops the call after the first was appended
C15_Witness ==
    /\ front.at = "raised"
    /\ front.raised = "newDistribution"
    /\ front.built # <<>>
    /\ front.built[1].nan
    /\ ~LognormCdf(front.frontier[front.i].ret, front.frontier[front.i].std).nan
    /\ front.i = 2
    /\ Len(front.distributions) = 1

\* C16: every Distribution that getExpectedDistributions returns has mass
\* below 1e-5 in cell 0; a frontier point whose discretisation has more makes
\* the call raise: its masses are left as discretised (not clamped), it is not
\* appended, and no later point is processed, so nothing is returned.
C16_ZeroCellMassIsFatal ==
    /\ \A k \in 1 .. Len(front.distributions) :
           /\ ~front.distributions[k].nan
           /\ front.distributions[k].probabilities[0] * 100000
                  < front.distributions[k].mass
    /\ (/\ front.built # <<>>
        /\ ~front.built[1].nan
        /\ front.built[1].probabilities[0] * 100000 >= front.built[1].mass) =>
           /\ front.at = "raised"
           /\ front.raised \in {"weights", "newDistribution"}
           /\ front.built[1].probabilities =
                  Diff(LognormCdf(front.frontier[front.i].ret,
                                  front.frontier[front.i].std).values)
           /\ Len(front.distributions) = front.i - 1
    /\ front.at = "returned" => Len(front.distributions) = Len(front.frontier)

\* the second point of the frontier carries exactly 1e-5 in cell 0 and weights
\* within the leverage cap: the assertion on cell 0 raises after the first
\* point was appended
C16_Witness ==
    /\ front.at = "raised"
    /\ front.raised = "newDistribution"
    /\ front.built # <<>>
    /\ ~front.built[1].nan
    /\ front.built[1].probabilities[0] * 100000 = front.built[1].mass
    /\ front.i = 2
    /\ Len(front.distributions) = 1

\* C18: the list find_efficient_frontier returns is the scanned points up to,
\* and without, the first one whose return does not exceed its predecessor's,
\* so it is strictly ascending in return; getExpectedDistributions returns one
\* Distribution per frontier point, in frontier order.
C18_FrontierStrictlyAscending ==
    front.at \in {"loop", "returned"} =>
        LET f == front.frontier
        IN  /\ Len(f) >= 1
            /\ \A k \in 1 .. Len(f) : f[k].solved /\ f[k] = front.points[k]
            /\ \A k \in 1 .. (Len(f) - 1) : f[k].ret < f[k + 1].ret
            /\ Len(f) < Len(front.points) =>
                   front.points[Len(f) + 1].ret <= f[Len(f)].ret
            /\ front.at = "returned" =>
                   /\ Len(front.distributions) = Len(f)
                   /\ \A k \in 1 .. Len(f) :
                          front.distributions[k] = LoopBody(f[k]).built

\* the third solve returns the same return as the second: the scan stops
\* there and two Distributions are returned
C18_Witness ==
    /\ front.at = "returned"
    /\ Len(front.frontier) = 2
    /\ front.points[3].solved
    /\ front.points[3].ret = front.frontier[2].ret
    /\ Len(front.distributions) = 2

\* ------------------------------------------------------------------
\* The two recursive calls of computeSolutionUtilityOnly run as tasks
\* ------------------------------------------------------------------

\* the calls a call makes once its midpoint is stored (lines 150-165), in
\* ascending order of their wealth ranges
Children(f) ==
    (IF f.minMoney < f.money
     THEN <<Frame(f.period, LowerHalfRange(f)[1], LowerHalfRange(f)[2],
                  LowerHalfBounds(f)[1], LowerHalfBounds(f)[2])>>
     ELSE <<>>)
    \o (IF f.maxMoney > f.money + 1
        THEN <<Frame(f.period, UpperHalfRange(f)[1], UpperHalfRange(f)[2],
                     UpperHalfBounds(f)[1], UpperHalfBounds(f)[2])>>
        ELSE <<>>)

\* Any pending call runs next: it evaluates and stores its midpoint (lines
\* 114-149) and its two recursive calls become pending in its place.  stack
\* holds the pending calls.
RunAnyCall ==
    /\ pc = "solving"
    /\ \E i \in 1 .. Len(stack) :
           LET f    == stack[i]
               ts   == TermSeq(NextRow(f.period), f.period, f.money,
                               f.lowerBoundDistIdx, f.upperBoundDistIdx, 0)
               ok   == /\ \A k \in 1 .. Len(ts) : TermOk(ts[k])
                       /\ EvaluatedCands(f.lowerBoundDistIdx, f.upperBoundDistIdx) # {}
               best == ScanCands(NextRow(f.period), f.period, f.money,
                                 f.lowerBoundDistIdx, f.upperBoundDistIdx, 0, NoBest)
               g    == [f EXCEPT !.bestPortfolioIdx = best.idx]
           IN  /\ terms' = terms \cup LoggedTerms(f.money, Executed(ts))
               /\ IF ok
                  THEN /\ dp' = [dp EXCEPT ![f.period][f.money] =
                                    ChoiceCell(best.value,
                                               cfg.distributions[best.idx + 1],
                                               best.idx, incomePerPeriod[f.period])]
                       /\ writes' = [writes EXCEPT ![f.period][f.money] = @ + 1]
                       /\ stack' = SubSeq(stack, 1, i - 1) \o Children(g)
                                       \o SubSeq(stack, i + 1, Len(stack))
                       /\ calls' = calls + Len(Children(g))
                       /\ pc' = pc
                  ELSE /\ pc' = "error"
                       /\ UNCHANGED <<dp, writes, stack, calls>>
    /\ UNCHANGED <<cfg, period, ret, sim, restVars>>

TaskNext ==
    \/ InitTerminal
    \/ SolvePeriod
    \/ RunAnyCall
    \/ PeriodDone
    \/ Finish

\* the row of a period does not depend on initialBalance (read at line 189
\* only): one balance and one loss aversion are enough here
TaskInit ==
    /\ Init
    /\ cfg.initialBalance = logToNumber(1)
    /\ cfg.lossAversion = 1

TaskSpec == TaskInit /\ [][TaskNext]_vars

\* computeSolutionUtilityOnly run to completion, one call after the other as
\* the code does, on a row of period p with next the row of period p + 1
RECURSIVE computeSolutionUtilityOnly(_, _, _, _, _, _, _)
computeSolutionUtilityOnly(row, next, p, minMoney, maxMoney, lo, hi) ==
    LET f     == Frame(p, minMoney, maxMoney, lo, hi)
        best  == ScanCands(next, p, f.money, lo, hi, 0, NoBest)
        g     == [f EXCEPT !.bestPortfolioIdx = best.idx]
        row1  == [row EXCEPT ![f.money] =
                     ChoiceCell(best.value, cfg.distributions[best.idx + 1],
                                best.idx, incomePerPeriod[p])]
        row2  == IF g.minMoney < g.money
                 THEN computeSolutionUtilityOnly(
                          row1, next, p, LowerHalfRange(g)[1], LowerHalfRange(g)[2],
                          LowerHalfBounds(g)[1], LowerHalfBounds(g)[2])
                 ELSE row1
    IN  IF g.maxMoney > g.money + 1
        THEN computeSolutionUtilityOnly(
                 row2, next, p, UpperHalfRange(g)[1], UpperHalfRange(g)[2],
                 UpperHalfBounds(g)[1], UpperHalfBounds(g)[2])
        ELSE row2

\* the row of period p as the sequential run leaves it
SequentialRow(p) ==
    computeSolutionUtilityOnly([m \in Moneys |-> EmptyCell], dp[p + 1], p,
                               0, TOTAL_STEPS, 0, NumCands - 1)

\* C17: whatever order the pending calls run in, their wealth ranges are
\* pairwise disjoint and hold no cell already stored (so not the midpoint of
\* any call that ran), every cell of the period is written at most once, each
\* stored cell is the one the sequential run stores there, and when no call
\* is pending the row of the period is the row of the sequential run.
C17_BranchesIndependent ==
    /\ pc = "solving" =>
           /\ \A i, j \in 1 .. Len(stack) :
                  i < j => stack[i].maxMoney <= stack[j].minMoney
           /\ \A i \in 1 .. Len(stack) :
                  \A m \in stack[i].minMoney .. (stack[i].maxMoney - 1) :
                      ~Populated(stack[i].period, m)
           /\ LET row == SequentialRow(period)
              IN  \A m \in Moneys :
                      /\ writes[period][m] <= 1
                      /\ Populated(period, m) => dp[period][m] = row[m]
           /\ stack = <<>> => FullyPopulated(period)
    /\ pc = "done" =>
           \A p \in SolvedPeriods :
               /\ dp[p] = SequentialRow(p)
               /\ \A m \in Moneys : writes[p][m] = 1

\* the call on the upper half has stored its midpoint while the call on the
\* lower half is still pending: an order the sequential run never takes
C17_Witness ==
    /\ pc = "solving"
    /\ Len(stack) = 1
    /\ stack[1].maxMoney = Midpoint(0, TOTAL_STEPS)
    /\ \A m \in Moneys : Populated(period, m) <=> m >= Midpoint(0, TOTAL_STEPS)
    /\ \E m1, m2 \in Moneys : m1 < m2 /\ dp[period][m1].idx # dp[period][m2].idx

\* ------------------------------------------------------------------
\* The recursion of computeSolutionUtilityOnly, call by call
\* ------------------------------------------------------------------

\* the call stack[k + 1] was made by stack[k]: from its first call site when
\* the caller waits at "upper", from its second when it waits at "return"
MadeFromLowerSite(k) == stack[k].at = "upper"

MadeFromUpperSite(k) == stack[k].at = "return"

NextIndex(p, m, i) ==
    LET w == logToNumber(m + i - NEGATIVE_STEPS) + incomePerPeriod[p]
    IN  Min(Max(roundNumberToLog(w), 0), TOTAL_STEPS - 1)

RECURSIVE SumSupport(_, _, _, _)
SumSupport(p, m, sig, k) ==
    IF k > Len(sig) THEN FromInt(0)
    ELSE RAdd(RScale(sig[k].num, sig[k].den,
                     RAdd(dp[p + 1][NextIndex(p, m, sig[k].idx)].value,
                          dailyUtilityFunction(m, NextIndex(p, m, sig[k].idx), p))),
              SumSupport(p, m, sig, k + 1))

\* the expected value of candidate d (0-based) at wealth index m in period p
ExpectedValue(p, m, d) ==
    SumSupport(p, m, getSignificantProbabilities(Deref(cfg.distributions[d + 1])), 1)

\* C20: once a call has stored its midpoint m, dp[p][m].value is the maximum,
\* over the candidates d of the call's range [lowerBoundDistIdx,
\* upperBoundDistIdx], of the sum over the significant support cells i of d of
\* prob(i) * (dailyUtility(m, m', p) + dp[p + 1][m'].value), m' the rounded
\* index of the wealth after income clamped to [0, TOTAL_STEPS - 1].
C20_CellValueRecursion ==
    \A k \in 1 .. Len(stack) :
        LET f == stack[k]
            v == dp[f.period][f.money].value
            range == {d \in 0 .. (NumCands - 1) :
                         f.lowerBoundDistIdx <= d /\ d <= f.upperBoundDistIdx}
        IN  f.at # "eval" =>
                /\ dp[f.period][f.money].kind = "choice"
                /\ \E d \in range : v = ExpectedValue(f.period, f.money, d)
                /\ \A d \in range : ~RGt(ExpectedValue(f.period, f.money, d), v)

\* a stored midpoint whose call compared two candidates of different expected
\* value, the clamp at the top of the grid acting on one of their cells
C20_Witness ==
    /\ pc = "solving"
    /\ stack # <<>>
    /\ Top.at = "lower"
    /\ Top.lowerBoundDistIdx < Top.upperBoundDistIdx
    /\ RGt(ExpectedValue(Top.period, Top.money, Top.upperBoundDistIdx),
           ExpectedValue(Top.period, Top.money, Top.lowerBoundDistIdx))
    /\ dp[Top.period][Top.money].value
           = ExpectedValue(Top.period, Top.money, Top.upperBoundDistIdx)
    /\ \E s \in terms : s.money = Top.money /\ s.raw > TOTAL_STEPS - 1

\* ------------------------------------------------------------------
\* The cells of a period while and after it is solved
\* ------------------------------------------------------------------

\* C21: at every moment of the solve, among the cells of a non-terminal
\* period that are already stored, a lower wealth index never holds a lower
\* candidate index than a higher wealth index: for m1 < m2 the index at
\* dp[p][m1] is greater than or equal to the index at dp[p][m2].
C21_StoredIndexNonIncreasing ==
    \A p \in SolvedPeriods : \A m1, m2 \in Moneys :
        (m1 < m2 /\ Populated(p, m1) /\ Populated(p, m2)) =>
            /\ NumCands > 0
            /\ dp[p][m1].idx >= dp[p][m2].idx

\* during the solve of a period, the call on the lower half has stored a
\* strictly higher candidate index than its caller stored for the midpoint
C21_Witness ==
    /\ pc = "solving"
    /\ Len(stack) >= 2
    /\ stack[1].at = "upper"
    /\ stack[2].at # "eval"
    /\ dp[period][stack[2].money].idx > dp[period][stack[1].money].idx
    /\ ~FullyPopulated(period)

\* C22: the index a call stores for its midpoint is the smallest index of its
\* candidate range that attains the maximal value: every earlier candidate of
\* the range has a strictly smaller value, no later one a greater value.
C22_FirstMaximizerKept ==
    \A k \in 1 .. Len(stack) :
        LET f == stack[k]
            i == dp[f.period][f.money].idx
        IN  f.at # "eval" =>
                /\ f.lowerBoundDistIdx <= i /\ i <= f.upperBoundDistIdx
                /\ i = f.bestPortfolioIdx
                /\ \A d \in f.lowerBoundDistIdx .. f.upperBoundDistIdx :
                       /\ d < i => RGt(ExpectedValue(f.period, f.money, i),
                                       ExpectedValue(f.period, f.money, d))
                       /\ d > i => ~RGt(ExpectedValue(f.period, f.money, d),
                                        ExpectedValue(f.period, f.money, i))

\* two candidates of the range tie on a finite maximal value and the cell
\* holds the first of them
C22_Witness ==
    /\ pc = "solving"
    /\ stack # <<>>
    /\ Top.at = "lower"
    /\ Top.lowerBoundDistIdx < Top.upperBoundDistIdx
    /\ ExpectedValue(Top.period, Top.money, Top.lowerBoundDistIdx)
           = ExpectedValue(Top.period, Top.money, Top.upperBoundDistIdx)
    /\ IsFinite(ExpectedValue(Top.period, Top.money, Top.lowerBoundDistIdx))
    /\ dp[Top.period][Top.money].idx = Top.lowerBoundDistIdx

\* C23: every stored cell of a non-terminal period p holds an index within
\* the candidate list, the candidate at that position of the list, that
\* candidate's expected value, and the sum of dailyIncome over the days of
\* period p; the index lies within the candidate range of the call that
\* stored the cell.
C23_CellConsistency ==
    /\ \A p \in SolvedPeriods : \A m \in Moneys :
           Populated(p, m) =>
               /\ dp[p][m].kind = "choice"
               /\ dp[p][m].idx \in 0 .. (NumCands - 1)
               /\ dp[p][m].dist = cfg.distributions[dp[p][m].idx + 1]
               /\ dp[p][m].value = ExpectedValue(p, m, dp[p][m].idx)
               /\ dp[p][m].income = cfg.dailyIncome[2 * p] + cfg.dailyIncome[2 * p + 1]
    /\ \A k \in 1 .. Len(stack) :
           stack[k].at # "eval" =>
               /\ Populated(stack[k].period, stack[k].money)
               /\ stack[k].lowerBoundDistIdx <= dp[stack[k].period][stack[k].money].idx
               /\ dp[stack[k].period][stack[k].money].idx <= stack[k].upperBoundDistIdx

\* a finished table of two periods with income on the first day only: the
\* cells of period 0 carry it, those of period 1 carry none, and both
\* candidates of the list are stored somewhere
C23_Witness ==
    /\ pc = "done"
    /\ cfg.numPeriods = 2
    /\ cfg.dailyIncome[0] = 2
    /\ \A m \in Moneys : dp[0][m].income = 2 /\ dp[1][m].income = 0
    /\ \E p \in SolvedPeriods : \E m1, m2 \in Moneys :
           /\ dp[p][m1].idx = 0 /\ dp[p][m2].idx = 1
           /\ dp[p][m1].dist # dp[p][m2].dist

\* ------------------------------------------------------------------
\* Lookups of the simulator in the finished PolicyTable
\* ------------------------------------------------------------------

\* C24 as stated: every call of getPositionsFromBasket for a date of the
\* study window addresses a cell of a non-terminal period with a wealth index
\* in [0, TOTAL_STEPS - 1], and obtains the stored Distribution of that cell
\* with its portfolio: the lookup itself never fails.
C24_LookupHitsPopulatedCell ==
    lookup.called =>
        /\ lookup.site \notin {"round", "self.dp"}
        /\ lookup.periodIdx \in 0 .. (cfg.numPeriods - 1)
        /\ lookup.logMoney \in Moneys
        /\ dp[lookup.periodIdx][lookup.logMoney].kind = "choice"
        /\ dp[lookup.periodIdx][lookup.logMoney].dist # NoRef

\* what does hold: the period addressed is never the terminal one, and a
\* lookup that raises neither in round() nor on self.dp obtains a stored cell
C24_LookupHitsWhenIndexOnGrid ==
    lookup.called =>
        /\ lookup.periodIdx \in 0 .. (cfg.numPeriods - 1)
        /\ lookup.site \notin {"round", "self.dp"} =>
               /\ lookup.logMoney \in Moneys
               /\ dp[lookup.periodIdx][lookup.logMoney].kind = "choice"
               /\ dp[lookup.periodIdx][lookup.logMoney].dist # NoRef
        /\ lookup.site = "self.dp" => lookup.logMoney > TOTAL_STEPS - 1

\* a basket worth more than the highest grid cell: the index is TOTAL_STEPS
\* and self.dp[periodIdx] has no such key
C24_LookupAboveGrid ==
    /\ lookup.called
    /\ lookup.site = "self.dp"
    /\ lookup.raised = "KeyError"
    /\ lookup.logMoney = TOTAL_STEPS

\* ------------------------------------------------------------------
\* The days of simulate
\* ------------------------------------------------------------------

\* C25: the days recorded are the trading days before the current one, each
\* once; for every recorded day after the first the recorded basket holds the
\* positions the strategy returns for the basket recorded the day before, its
\* cash is the strategy's cash plus the income of the day, times the interest
\* factor of the sign of that sum, the recorded balance is the value of that
\* basket after interest, and the recorded contribution is the day's income;
\* the basket carried to the next day is the last one recorded.
C25_StepOrder ==
    sim.at \in {"loop", "returned"} =>
        /\ DOMAIN sim.balancePerDay = 1 .. (sim.day - 1)
        /\ DOMAIN sim.basketsPerDay = 1 .. (sim.day - 1)
        /\ DOMAIN sim.contributionsPerDay = 1 .. (sim.day - 1)
        /\ sim.day - 1 <= sim.tradingDays
        /\ sim.at = "returned" => sim.day - 1 = sim.tradingDays
        /\ sim.basket = sim.basketsPerDay[sim.day - 1]
        /\ \A d \in 2 .. (sim.day - 1) :
               LET t == getPositionsFromBasket(sim.stockExposures, sim.quotes[d],
                                               sim.basketsPerDay[d - 1])
                   c == QAdd(t.basket.cash, sim.dailyIncome[d])
               IN  /\ t.raised = "none"
                   /\ sim.basketsPerDay[d].stockPositions = t.basket.stockPositions
                   /\ sim.basketsPerDay[d].cash =
                          IF QPositive(c) THEN QMul(c, DailyFactor(-1, 250))
                          ELSE QMul(c, DailyFactor(1, 250))
                   /\ sim.balancePerDay[d] =
                          getCashValue(sim.basketsPerDay[d], sim.quotes[d], FALSE).value
                   /\ sim.contributionsPerDay[d] = sim.dailyIncome[d]

\* a run of two days has returned, the second day with an income: adding the
\* income after the interest would have left a different cash
C25_Witness ==
    /\ sim.at = "returned"
    /\ sim.tradingDays = 2
    /\ sim.dailyIncome[2] = QOne
    /\ LET t == getPositionsFromBasket(sim.stockExposures, sim.quotes[2],
                                       sim.basketsPerDay[1])
       IN  sim.basketsPerDay[2].cash
               # QAdd(Accrue(t.basket.cash, sim.fedFundsRate), sim.dailyIncome[2])

\* ------------------------------------------------------------------
\* strategy.getBasketFromStockExposures on its own
\* ------------------------------------------------------------------

\* stockExposures, in dict order: those of the simulated strategies, an
\* instrument with exposure zero, exposures that cancel, and half invested
TranslationExposures ==
    StockExposureLists
    \cup {<<Exposure("SPY", 1, 1), Exposure("TLT", 0, 1)>>,
          <<Exposure("SPY", 1, 1), Exposure("TLT", -1, 1)>>,
          <<Exposure("SPY", 1, 2)>>}

\* basketValue: positive, zero, and negative (a leveraged basket under water)
TranslationValues == {QOne, FromInt(2), QZero, FromInt(-1)}

TranslationInit ==
    /\ SolverIdle
    /\ probe \in [fn : {"translate"}, stockExposures : TranslationExposures,
                  quote : Quotes, basketValue : TranslationValues,
                  skipNotTraded : BOOLEAN,
                  out : {[raised |-> "none", basket |-> EmptyBasket]},
                  done : {FALSE}]

\* getBasketFromStockExposures(stockExposures, date, basketValue, skipNotTraded)
Translate ==
    /\ probe.fn = "translate"
    /\ ~probe.done
    /\ probe' = [probe EXCEPT
           !.out = getBasketFromStockExposures(probe.stockExposures, probe.quote,
                                               probe.basketValue, probe.skipNotTraded),
           !.done = TRUE]
    /\ UNCHANGED <<solverVars, sim, heap, lookup, front>>

TranslationNext == Translate

TranslationSpec == TranslationInit /\ [][TranslationNext]_vars

\* the sum of the requested exposures from entry k on
RECURSIVE RequestedFrom(_, _)
RequestedFrom(stockExposures, k) ==
    IF k > Len(stockExposures) THEN QZero
    ELSE QAdd(stockExposures[k].exposure, RequestedFrom(stockExposures, k + 1))

\* the requested instruments that have no row (are not traded) on the date
Untradable(stockExposures, quote) ==
    {k \in 1 .. Len(stockExposures) : stockExposures[k].name \notin quote.rows}

\* C26: with skipNotTraded false the call raises whenever the requested
\* exposures sum to zero (ValueError) and whenever a requested instrument is
\* not traded on the date (KeyError of its price lookup, the exposures
\* themselves always matching); in no other case does it raise.
C26_UntradableRequestRaises ==
    (probe.done /\ ~probe.skipNotTraded) =>
        LET total == RequestedFrom(probe.stockExposures, 1)
            gone  == Untradable(probe.stockExposures, probe.quote)
        IN  /\ total = QZero => probe.out.raised = "ValueError"
            /\ (total # QZero /\ gone # {}) => probe.out.raised = "KeyError"
            /\ (total # QZero /\ gone = {}) => probe.out.raised = "none"

\* a request for two instruments of which the second has no row on the
\* date: the call raises although the first could have been bought
C26_Witness ==
    /\ probe.done
    /\ ~probe.skipNotTraded
    /\ Len(probe.stockExposures) = 2
    /\ Untradable(probe.stockExposures, probe.quote) = {2}
    /\ RequestedFrom(probe.stockExposures, 1) # QZero
    /\ probe.out.raised = "KeyError"

\* sum of position * price over the instruments of a basket, plus its cash
RECURSIVE MarkToMarketFrom(_, _, _)
MarkToMarketFrom(basket, names, quote) ==
    IF names = {} THEN basket.cash
    ELSE LET n == CHOOSE x \in names : TRUE
         IN  QAdd(QMul(basket.stockPositions[n], FromInt(quote.close[n])),
                  MarkToMarketFrom(basket, names \ {n}, quote))

MarkToMarket(basket, quote) ==
    MarkToMarketFrom(basket, DOMAIN basket.stockPositions, quote)

\* the basket is worth basketValue at the prices of the date and its cash is
\* basketValue * (1 - sum of exposures)
ValueConserved ==
    /\ MarkToMarket(probe.out.basket, probe.quote) = probe.basketValue
    /\ probe.out.basket.cash =
           QMul(probe.basketValue,
                QSub(QOne, RequestedFrom(probe.stockExposures, 1)))

TotalExposureAboveOne == QPositive(QSub(RequestedFrom(probe.stockExposures, 1), QOne))

TotalExposureBelowOne == QNegative(QSub(RequestedFrom(probe.stockExposures, 1), QOne))

\* C27 as stated: for any exposures with non-zero total and any basketValue
\* the returned basket is worth basketValue, its cash is basketValue *
\* (1 - sum of exposures), and the cash is negative exactly when the total
\* exposure exceeds 1.
C27_CashNegativeIffLeveraged ==
    (probe.done /\ ~probe.skipNotTraded /\ probe.out.raised = "none") =>
        /\ ValueConserved
        /\ QNegative(probe.out.basket.cash) <=> TotalExposureAboveOne

\* C27 amended: the returned basket is worth basketValue and its cash is
\* basketValue * (1 - sum of exposures); the cash is negative exactly when
\* basketValue is positive and the total exposure exceeds 1, or basketValue
\* is negative and the total exposure is below 1.
C27_RebalancingConservesWealth ==
    (probe.done /\ ~probe.skipNotTraded /\ probe.out.raised = "none") =>
        /\ ValueConserved
        /\ QNegative(probe.out.basket.cash) <=>
               \/ QPositive(probe.basketValue) /\ TotalExposureAboveOne
               \/ QNegative(probe.basketValue) /\ TotalExposureBelowOne

\* a basket under water rebalanced to half exposure: the position is short,
\* the cash is negative although the total exposure is below 1, and the
\* basket is still worth basketValue
C27_Witness ==
    /\ probe.done
    /\ ~probe.skipNotTraded
    /\ probe.out.raised = "none"
    /\ QNegative(probe.basketValue)
    /\ TotalExposureBelowOne
    /\ QNegative(probe.out.basket.cash)
    /\ probe.quote.dividends["SPY"] = 1
    /\ MarkToMarket(probe.out.basket, probe.quote) = probe.basketValue

\* ------------------------------------------------------------------
\* The first day of simulate
\* ------------------------------------------------------------------

\* C28: once the first day is recorded its contribution is 0 and its basket
\* is the one the strategy returns for a cash-only basket of initialBalance,
\* untouched by income or interest, whatever dailyIncome gives for that date;
\* its balance is the value of that basket at the prices of the date; every
\* later recorded day has the contribution dailyIncome(date).
C28_FirstDayTreatment ==
    sim.at \in {"loop", "returned"} =>
        LET t == getPositionsFromBasket(sim.stockExposures, sim.quotes[1],
                                        CashBasket(sim.initialBalance))
        IN  /\ t.raised = "none"
            /\ sim.contributionsPerDay[1] = QZero
            /\ sim.basketsPerDay[1] = t.basket
            /\ sim.balancePerDay[1] = MarkToMarket(t.basket, sim.quotes[1])
            /\ \A d \in 2 .. (sim.day - 1) :
                   sim.contributionsPerDay[d] = sim.dailyIncome[d]

\* a run of two days with an income on both has returned: the first day has
\* the contribution 0 and the balance initialBalance, the second the income
C28_Witness ==
    /\ sim.at = "returned"
    /\ sim.tradingDays = 2
    /\ sim.dailyIncome[1] = QOne
    /\ sim.dailyIncome[2] = QOne
    /\ sim.contributionsPerDay[1] = QZero
    /\ sim.contributionsPerDay[2] = QOne
    /\ sim.balancePerDay[1] = sim.initialBalance

\* ------------------------------------------------------------------
\* The wealth index of the initial balance
\* ------------------------------------------------------------------

\* the call getPositionsFromBasket that simulate makes on the first trading
\* day: period 0, a cash-only basket of initialBalance, and an index computed
FirstDayLookup ==
    /\ pc = "done"
    /\ lookup.called
    /\ lookup.periodIdx = 0
    /\ lookup.cashValue = FromInt(cfg.initialBalance)
    /\ lookup.site \notin {"getCashValue", "round"}

\* the start state of calculateStateProbabilitiesMatrix:
\* int(numberToLog(simulationResult.initialBalance))
StateProbabilitiesStart == intNumberToLog(cfg.initialBalance)

\* C29: the index the simulator looks up on the first day for a cash-only
\* basket of initialBalance is the solver's initialMoney, which is also the
\* start state of the implied state probabilities.
C29_SingleDiscretisation ==
    FirstDayLookup =>
        /\ lookup.logMoney = initialMoney
        /\ StateProbabilitiesStart = initialMoney

\* the two indices agree when initialBalance is the wealth of a grid cell
C29_AgreeOnGridPoints ==
    (FirstDayLookup /\ cfg.initialBalance = logToNumber(initialMoney)) =>
        lookup.logMoney = initialMoney

\* initialBalance between two grid cells, nearer to the upper one: the solver
\* truncates to the lower cell, the simulator rounds to the upper
C29_LookupBesideStartState ==
    /\ FirstDayLookup
    /\ cfg.initialBalance = 3 * logToNumber(0)
    /\ initialMoney = 1
    /\ lookup.logMoney = 2
    /\ lookup.raised = "none"

\* ------------------------------------------------------------------
\* DynamicOptimisationStrategy.__init__: distributionsPerPeriod
\* ------------------------------------------------------------------

\* datetime.date(2014, 3, 1), as yyyymmdd
EstimationDate == 20140301

\* startDate of the study window: before, on and after that date
StartDates == {20130102, 20140301, 20150105}

DaysPerRebalance == {1, 2}

\* what getExpectedDistributions returns for an estimation date and a
\* periodDays: any two-point list of the frontier, the data deciding
MarketLists == {l \in CandidateLists : Len(l) = 2}

Markets == [StartDates \X DaysPerRebalance -> MarketLists]

\* bool(x) of a datetime.date: the class defines neither __bool__ nor __len__
Truthy(date) == TRUE

\* x or y
Or(x, y) == IF Truthy(x) THEN x ELSE y

\* mutant: the start of the study window takes precedence
DateOfEstimateFromStart(startDate) == Or(startDate, EstimationDate)

\* line 53: datetime.date(2014, 3, 1) or self.startDate
DateOfEstimate(startDate) == Or(EstimationDate, startDate)

\* getExpectedDistributions(date, self.possibleInstruments, periodDays)
getExpectedDistributions(market, date, periodDays) == market[<<date, periodDays>>]

CandidatesInit ==
    /\ SolverIdle
    /\ probe \in [fn : {"candidates"}, market : Markets, startDate : StartDates,
                  daysPerRebalance : DaysPerRebalance,
                  numPeriods : 0 .. MaxPeriods,
                  distributionsPerPeriod : {<<>>}]

\* lines 51-63: the element of the list comprehension for the next period
CandidatesOfPeriod ==
    /\ probe.fn = "candidates"
    /\ Len(probe.distributionsPerPeriod) < probe.numPeriods
    /\ probe' = [probe EXCEPT
           !.distributionsPerPeriod =
               Append(@, getExpectedDistributions(probe.market,
                                                  DateOfEstimate(probe.startDate),
                                                  probe.daysPerRebalance))]
    /\ UNCHANGED <<solverVars, sim, heap, lookup, front>>

CandidatesNext == CandidatesOfPeriod

CandidatesSpec == CandidatesInit /\ [][CandidatesNext]_vars

\* C30: every period's candidate list is the one getExpectedDistributions
\* gives for 2014-03-01 and daysPerRebalance, whatever the period and the
\* start of the study window; all periods have the same list.
C30_CandidatesIgnorePeriodAndWindow ==
    probe.fn = "candidates" =>
        \A p \in 1 .. Len(probe.distributionsPerPeriod) :
            /\ probe.distributionsPerPeriod[p]
                   = probe.market[<<20140301, probe.daysPerRebalance>>]
            /\ probe.distributionsPerPeriod[p] = probe.distributionsPerPeriod[1]

\* two periods built for a study window that starts after 2014-03-01, on a
\* market whose frontier at the start of the window differs: both periods
\* have the list of 2014-03-01
C30_Witness ==
    /\ probe.fn = "candidates"
    /\ probe.numPeriods = 2
    /\ Len(probe.distributionsPerPeriod) = 2
    /\ probe.startDate = 20150105
    /\ probe.market[<<20150105, probe.daysPerRebalance>>]
           # probe.market[<<20140301, probe.daysPerRebalance>>]
    /\ probe.distributionsPerPeriod[1] = probe.market[<<20140301, probe.daysPerRebalance>>]
    /\ probe.distributionsPerPeriod[2] = probe.distributionsPerPeriod[1]

====
